---- MODULE Spec2Model ----
(***************************************************************************)
(* Model of the authentication / authorization pipeline of the Express     *)
(* server starter: JWT session resolution (core/common/jwt.ts), the        *)
(* `authenticated` middleware (core/common/authentication.ts), the role    *)
(* and tenant guards and their composition (core/common/authorization.ts), *)
(* the global error handler and the login path of UserService.             *)
(*                                                                         *)
(* Optional values (undefined / null in the source) are modelled as sets   *)
(* with at most one element: {} is "absent", {v} is "present with value v".*)
(***************************************************************************)
EXTENDS Integers, Sequences, FiniteSets, TLC

\* ------------------------------------------------------------------------
\* Bounds of the model
\* ------------------------------------------------------------------------
MaxHeaderLen == 3     \* atoms in an Authorization header
MaxRoles == 2         \* length of a roles list
MaxGuards == 2        \* guards given to authorizeMultiple
MaxScript == 2        \* effects performed by a stub guard
MaxEffects == 4       \* effects performed by all stub guards of a request
MaxTime == 24         \* last hour the clock reaches
ClockStep == 12       \* hours that pass in one clock step

\* ------------------------------------------------------------------------
\* Program constants
\* ------------------------------------------------------------------------
HTTP_OK == 200
HTTP_BAD_REQUEST == 400
HTTP_UNAUTHENTICATED == 401
HTTP_FORBIDDEN == 403
HTTP_NOT_FOUND == 404
HTTP_INTERNAL_SERVER_ERROR == 500
\* express-rate-limit answers a refused request with 429 (server.ts 33-39)
HTTP_TOO_MANY_REQUESTS == 429
\* server.ts: max requests per IP and window
RATE_LIMIT_MAX == 100

VALIDATION_ERROR == "ValidationError"
AUTHENTICATION_ERROR == "AuthenticationError"

\* jwt.ts: the signing secret and the validity window ('24h', in hours)
JWT_SECRET == "your-secret-key"
TOKEN_EXPIRATION == 24

\* types/index.ts: enum UserRole
UserRole == {"admin", "user", "manager"}

\* ------------------------------------------------------------------------
\* Helpers over optional values and sequences
\* ------------------------------------------------------------------------
Absent == {}
Some(v) == {v}
IsPresent(o) == o # {}
The(o) == CHOOSE v \in o : TRUE

SeqsUpTo(S, n) == UNION {[1..k -> S] : k \in 0..n}
Elems(s) == {s[i] : i \in 1..Len(s)}


\* ------------------------------------------------------------------------
\* Token claims, tokens and the Authorization header
\* ------------------------------------------------------------------------
\* types/index.ts JWTPayload: roles and tenantId are optional
Payload(userId, email, roles, tenantId) ==
  [userId |-> userId, email |-> email, roles |-> roles, tenantId |-> tenantId]

\* A signed token: the claims, the key that signed it, issue and expiry hour
Token(payload, key, iat) ==
  [payload |-> payload, key |-> key, iat |-> iat, exp |-> iat + TOKEN_EXPIRATION]

\* Faulty variant: the tenant claim is left out of the signed payload
generateToken_noTenant(payload, t) ==
  Token([payload EXCEPT !.tenantId = Absent], JWT_SECRET, t)

\* jwt.sign(payload, JWT_SECRET, {expiresIn: TOKEN_EXPIRATION}) at hour t
generateToken(payload, t) == Token(payload, JWT_SECRET, t)

\* The decoded claims jwt.verify returns: the payload plus iat and exp
Decoded(tok) ==
  [userId |-> tok.payload.userId, email |-> tok.payload.email,
   roles |-> tok.payload.roles, tenantId |-> tok.payload.tenantId,
   iat |-> tok.iat, exp |-> tok.exp]

\* An Authorization header is a sequence of atoms: a word of non-space
\* characters, one space, or the compact text of a signed token.
Word(t) == [kind |-> "word", text |-> t]
Sp == [kind |-> "sp"]
Jwt(tok) == [kind |-> "jwt", tok |-> tok]
BearerW == Word("Bearer")

\* authHeader.startsWith('Bearer ')
StartsWithBearer(h) == Len(h) >= 2 /\ h[1] = BearerW /\ h[2] = Sp

\* authHeader.split(' ')[1]: the atoms between the first and the second
\* space (the header is known to have a first space at position 2)
RECURSIVE UpToSpace(_, _)
UpToSpace(h, i) ==
  IF i > Len(h) \/ h[i] = Sp THEN <<>> ELSE <<h[i]>> \o UpToSpace(h, i + 1)

SecondPiece(h) == UpToSpace(h, 3)

\* Faulty variant: the expiry of the token is not looked at
verifyToken_ignoreExpiration(piece, t) ==
  IF /\ Len(piece) = 1
     /\ piece[1].kind = "jwt"
     /\ piece[1].tok.key = JWT_SECRET
  THEN Some(Decoded(piece[1].tok))
  ELSE Absent

\* jwt.verify(token, JWT_SECRET) inside try/catch: the claims, or null on
\* a malformed text, a wrong signature or an elapsed expiry
verifyToken(piece, t) ==
  IF /\ Len(piece) = 1
     /\ piece[1].kind = "jwt"
     /\ piece[1].tok.key = JWT_SECRET
     /\ t < piece[1].tok.exp
  THEN Some(Decoded(piece[1].tok))
  ELSE Absent

\* Faulty variant: the token is handed to verifyToken without the test for
\* an empty one
hasValidSessionRun_noEmptyCheck(header, t) ==
  IF ~IsPresent(header) THEN [result |-> Absent, verifyCalls |-> <<>>]
  ELSE IF ~StartsWithBearer(The(header)) THEN [result |-> Absent, verifyCalls |-> <<>>]
  ELSE [result |-> verifyToken(SecondPiece(The(header)), t),
        verifyCalls |-> <<SecondPiece(The(header))>>]

\* One run of hasValidSession(authHeader) at hour t: what it returns and
\* the arguments of the calls of verifyToken it makes
hasValidSessionRun(header, t) ==
  IF ~IsPresent(header) THEN [result |-> Absent, verifyCalls |-> <<>>]
  ELSE IF ~StartsWithBearer(The(header)) THEN [result |-> Absent, verifyCalls |-> <<>>]
  ELSE IF SecondPiece(The(header)) = <<>> THEN [result |-> Absent, verifyCalls |-> <<>>]
  ELSE [result |-> verifyToken(SecondPiece(The(header)), t),
        verifyCalls |-> <<SecondPiece(The(header))>>]

\* hasValidSession(authHeader) evaluated at hour t
hasValidSession(header, t) == hasValidSessionRun(header, t).result

\* ------------------------------------------------------------------------
\* Request, response and errors
\* ------------------------------------------------------------------------
\* `||` of JavaScript on optional strings: the left operand when truthy
Truthy(o) == IsPresent(o) /\ The(o) # ""
OrElse(a, b) == IF Truthy(a) THEN a ELSE b

\* req?.session?.user
SessionUser(r) == IF IsPresent(r.session) THEN The(r.session).user ELSE Absent

Err(name, message) == [name |-> name, message |-> message]
TypeErr(message) == Err("TypeError", message)
HeadersSentErr == Err("Error", "Cannot set headers after they are sent to the client")

\* A fresh response object
NewRes == [headersSent |-> FALSE, statusCode |-> HTTP_OK, wire |-> Absent, calls |-> 0]

\* res.status(status).json(body): the first call writes the response; a
\* later call sets res.statusCode and then throws ERR_HTTP_HEADERS_SENT,
\* leaving what was written untouched
SendThrows(r) == r.headersSent
Send(r, status, body) ==
  IF r.headersSent
  THEN [r EXCEPT !.statusCode = status, !.calls = @ + 1]
  ELSE [headersSent |-> TRUE, statusCode |-> status,
        wire |-> Some([status |-> status, body |-> body]), calls |-> r.calls + 1]

\* error-handler.ts errorHandler(err, req, res, next), NODE_ENV # development.
\* The branches do not return, so control falls through to the default one.
errorHandler(r, e) ==
  LET r1 == IF e.name = VALIDATION_ERROR
            THEN Send(r, HTTP_BAD_REQUEST,
                      [error |-> IF e.message # "" THEN e.message ELSE "Validation failed"])
            ELSE r
      threw1 == e.name = VALIDATION_ERROR /\ SendThrows(r)
      r2 == IF e.name = AUTHENTICATION_ERROR
            THEN Send(r1, HTTP_UNAUTHENTICATED, [error |-> "Authentication failed"])
            ELSE r1
      threw2 == e.name = AUTHENTICATION_ERROR /\ SendThrows(r1)
  IN IF threw1 THEN r1
     ELSE IF threw2 THEN r2
     ELSE Send(r2, HTTP_INTERNAL_SERVER_ERROR, [error |-> "Internal Server Error"])

\* ------------------------------------------------------------------------
\* Authorization guards (authorization.ts)
\* ------------------------------------------------------------------------
HasRoleG(roles) == [kind |-> "hasRole", roles |-> roles]
TenantG == [kind |-> "belongsToTenant", roles |-> <<>>]
StubG == [kind |-> "stub", roles |-> <<>>]

isAdmin == HasRoleG(<<"admin", "manager", "user">>)
isManager == HasRoleG(<<"manager", "user">>)
isUser == HasRoleG(<<"user">>)

\* user.roles.some(role => roles.includes(role))
hasRequiredRole(userRoles, roles) ==
  \E i \in 1..Len(userRoles) : userRoles[i] \in Elems(roles)

\* What the middleware returned by hasRole(roles) does on request r:
\* "send401", "send403", "next", or "throw" (user.roles is undefined)
hasRole(roles, r) ==
  LET user == SessionUser(r)
  IN IF ~IsPresent(user) THEN "send401"
     ELSE IF ~IsPresent(The(user).roles) THEN "throw"
     ELSE IF ~hasRequiredRole(The(The(user).roles), roles) THEN "send403"
     ELSE "next"

\* Faulty variant: the body's tenant identifier takes precedence over the parameter
requestedTenantId_bodyFirst(r) == OrElse(r.body.tenantId, r.params.tenantId)

\* const requestedTenantId = req.params.tenantId || req.body.tenantId
requestedTenantId(r) == OrElse(r.params.tenantId, r.body.tenantId)

\* Faulty variant: the guard without the `!user.tenantId` test
belongsToTenant_noEmptyCheck(r) ==
  LET user == SessionUser(r)
  IN IF ~IsPresent(user) THEN "send401"
     ELSE IF The(user).tenantId # OrElse(r.params.tenantId, r.body.tenantId)
     THEN "send403"
     ELSE "next"

\* What the middleware returned by belongsToTenant() does on request r
belongsToTenant(r) ==
  LET user == SessionUser(r)
  IN IF ~IsPresent(user) THEN "send401"
     ELSE IF ~Truthy(The(user).tenantId) \/ The(user).tenantId # requestedTenantId(r)
     THEN "send403"
     ELSE "next"

\* The effect of a guard other than a stub
GuardOutcome(g, r) ==
  IF g.kind = "hasRole" THEN hasRole(g.roles, r) ELSE belongsToTenant(r)

GuardStatus(outcome) ==
  IF outcome = "send401" THEN HTTP_UNAUTHENTICATED ELSE HTTP_FORBIDDEN

GuardBody(g, outcome) ==
  [message |->
     IF outcome = "send401" THEN "Unauthorized - User not authenticated"
     ELSE IF g.kind = "hasRole" THEN "Forbidden - Insufficient permissions"
     ELSE "Forbidden - Invalid tenant access"]

\* ------------------------------------------------------------------------
\* Credential store and login (services/user)
\* ------------------------------------------------------------------------
\* bcrypt.hash(password, salt) and bcrypt.compare(password, hash)
\* A string that can sit in a password field: a text typed by somebody,
\* hashed zero or more times; layers holds the salt of each hashing in turn
Str(text) == [text |-> text, layers |-> <<>>]
bcryptHash(password, salt) == [password EXCEPT !.layers = Append(@, salt)]
\* compare is true exactly when hash is the bcrypt hash of password
bcryptCompare(password, hash) ==
  /\ Len(hash.layers) > 0
  /\ hash.text = password.text
  /\ SubSeq(hash.layers, 1, Len(hash.layers) - 1) = password.layers
\* `if (this.password)`: any string but the empty one
NonEmpty(s) == ~(s.text = "" /\ s.layers = <<>>)

\* userRepository.findOne({ where: { email } })
findUserByEmail(store, email) == {u \in store : u.email = email}

\* UserService.authenticateUser(email, password) at hour t: the token it
\* returns, or the status of the AppError it throws
authenticateUser(store, email, password, t) ==
  LET found == findUserByEmail(store, email)
  IN IF found = {} THEN [ok |-> FALSE, status |-> HTTP_NOT_FOUND, token |-> Absent]
     ELSE LET user == The(found)
          IN IF ~bcryptCompare(password, user.password)
             THEN [ok |-> FALSE, status |-> HTTP_UNAUTHENTICATED, token |-> Absent]
             ELSE [ok |-> TRUE, status |-> HTTP_OK,
                   token |-> Some(generateToken(
                               Payload(user.id, user.email, Absent, Absent), t))]

\* ------------------------------------------------------------------------
\* State
\* ------------------------------------------------------------------------
VARIABLES
  now,          \* the clock, in hours
  users,        \* the rows of the users table
  client,       \* the token the client holds, if any
  login,        \* the outcome of the last authenticateUser call
  pc,           \* "idle", "auth", "guards", "run" or "done"
  req,          \* the request: authorization header, params, body, session
  route,        \* the route: [auth, guards]
  res,          \* the response object
  stack,        \* the call stack of middleware frames, top last
  inv,          \* inv[g]: how often guard g was invoked
  ok,           \* ok[g]: how often guard g called its continuation with no error
  er,           \* er[g]: how often guard g called its continuation with an error
  thrown,       \* the guards that threw an exception
  outer,        \* calls of the next given to authorizeMultiple: [ok, err, first]
  xp,           \* where the router stands: "handler", "routeEnd" or "final"
  handlerRuns,  \* how often the protected handler ran
  errRuns,      \* how often errorHandler ran
  rejectedAt,   \* the first guard that rejected, 0 when none did
  authNext,     \* how often `authenticated` called next
  spent,        \* how many effects the stub guards have performed
  probe,        \* the last direct call of a token function and its outcome
  call,         \* the last call of a user or auth service method and its outcome
  fail,         \* an exception raised while a request is processed, and the answers to it
  logrun,       \* an operation that logs, run with the sink working and with it failing
  reqs,         \* the requests processed concurrently, each with its own req object
  signups,      \* the signup calls in progress
  tx,           \* a DatabaseService.transaction call in progress
  proc,         \* the process: startup, signals, shutdown
  redis,        \* the hashes the Redis server holds, and the last RedisService call
  ops           \* the UserService and AuthService calls that await a query

vars == <<now, users, client, login, pc, req, route, res, stack, inv, ok, er,
          thrown, outer, xp, handlerRuns, errRuns, rejectedAt, authNext, spent, probe, call,
          fail, logrun, reqs, signups, tx, proc, redis, ops>>

sysVars == <<fail, logrun, reqs, signups, tx, proc, redis>>
envVars == <<now, users, client, login, probe, call, ops, sysVars>>
runVars == <<stack, inv, ok, er, thrown, outer, xp, handlerRuns, errRuns, rejectedAt,
            spent>>

NGuards == Len(route.guards)
Top == stack[Len(stack)]
Pop == SubSeq(stack, 1, Len(stack) - 1)

GuardFrame(g) == [kind |-> "guard", g |-> g, n |-> 0, sent |-> FALSE, called |-> FALSE,
                  e |-> Err("", "")]
HandlerFrame == [kind |-> "handler", g |-> 0, n |-> 0, sent |-> FALSE, called |-> FALSE,
                 e |-> Err("", "")]
ErrorFrame(e) == [kind |-> "errorHandler", g |-> 0, n |-> 0, sent |-> FALSE,
                  called |-> FALSE, e |-> e]

PcAfter(stk) == IF stk = <<>> THEN "done" ELSE "run"

\* ------------------------------------------------------------------------
\* Router dispatch (server.ts: the v1 router, then errorHandler)
\* ------------------------------------------------------------------------
\* next() reaching the router: the protected handler runs on the first call
\* only; later calls fall off the end of the route
AfterRouteNext(stk) == IF xp = "handler" THEN Append(stk, HandlerFrame) ELSE stk
XpAfterNext == IF xp = "handler" THEN "routeEnd" ELSE "final"

\* next(err) reaching the router, or an exception a layer caught: the
\* first error is handed to errorHandler, the handler is skipped
AfterRouteError(stk, e) == IF xp # "final" THEN Append(stk, ErrorFrame(e)) ELSE stk

NoteReject(g) == IF rejectedAt = 0 \/ g < rejectedAt THEN g ELSE rejectedAt

\* An exception thrown by guard g: no middleware of authorizeMultiple
\* catches it, the router layer does and dispatches it as an error
Unwind(g, e) ==
  /\ stack' = AfterRouteError(<<>>, e)
  /\ xp' = "final"
  /\ thrown' = thrown \cup {g}
  /\ pc' = PcAfter(stack')

\* Faulty variant: the end of the chain is detected one guard too early
executeMiddleware_skipLast(index, stk) ==
  IF index >= NGuards
  THEN /\ outer' = [outer EXCEPT !.ok = @ + 1]
       /\ stack' = AfterRouteNext(stk)
       /\ xp' = XpAfterNext
       /\ inv' = inv
  ELSE /\ stack' = Append(stk, GuardFrame(index))
       /\ inv' = [inv EXCEPT ![index] = @ + 1]
       /\ UNCHANGED <<outer, xp>>

\* authorization.ts executeMiddleware(index), on top of call stack stk
\* (index counts from 1 here)
executeMiddleware(index, stk) ==
  IF index = NGuards + 1
  THEN /\ outer' = [outer EXCEPT !.ok = @ + 1]
       /\ stack' = AfterRouteNext(stk)
       /\ xp' = XpAfterNext
       /\ inv' = inv
  ELSE /\ stack' = Append(stk, GuardFrame(index))
       /\ inv' = [inv EXCEPT ![index] = @ + 1]
       /\ UNCHANGED <<outer, xp>>

\* The continuation authorizeMultiple hands to guard g, called with no error
ContinueOk(g, stk) ==
  /\ ok' = [ok EXCEPT ![g] = @ + 1]
  /\ executeMiddleware(g + 1, stk)
  /\ pc' = PcAfter(stack')
  /\ UNCHANGED <<er, rejectedAt>>

\* Faulty variant: the continuation forwards the error without returning, and goes
\* on with the following guard
ContinueErr_noReturn(g, e, stk) ==
  /\ er' = [er EXCEPT ![g] = @ + 1]
  /\ IF g = NGuards
     THEN /\ outer' = [outer EXCEPT !.err = @ + 1, !.ok = @ + 1, !.last = e]
          /\ stack' = AfterRouteError(stk, e)
          /\ inv' = inv
     ELSE /\ outer' = [outer EXCEPT !.err = @ + 1, !.last = e]
          /\ stack' = Append(AfterRouteError(stk, e), GuardFrame(g + 1))
          /\ inv' = [inv EXCEPT ![g + 1] = @ + 1]
  /\ xp' = "final"
  /\ rejectedAt' = NoteReject(g)
  /\ pc' = PcAfter(stack')
  /\ UNCHANGED ok

\* The same continuation called with error e: return next(err)
ContinueErr(g, e, stk) ==
  /\ er' = [er EXCEPT ![g] = @ + 1]
  /\ outer' = [outer EXCEPT !.err = @ + 1, !.last = e]
  /\ stack' = AfterRouteError(stk, e)
  /\ xp' = "final"
  /\ rejectedAt' = NoteReject(g)
  /\ pc' = PcAfter(stack')
  /\ UNCHANGED <<ok, inv>>

WithTop(f) == [stack EXCEPT ![Len(stack)] = f]

\* The middleware returned by authorizeMultiple(...middlewares) is invoked
AuthorizeMultiple ==
  /\ pc = "guards"
  /\ executeMiddleware(1, <<>>)
  /\ pc' = PcAfter(stack')
  /\ UNCHANGED <<envVars, req, route, res, ok, er, thrown, handlerRuns, errRuns,
                 rejectedAt, authNext, spent>>

\* A hasRole or belongsToTenant middleware on top of the stack runs
RunGuard(kind) ==
  /\ pc = "run" /\ Top.kind = "guard" /\ Top.n = 0
  /\ route.guards[Top.g].kind = kind
  /\ LET g == Top.g
         guard == route.guards[g]
         outcome == GuardOutcome(guard, req)
     IN CASE outcome = "next" ->
               /\ ContinueOk(g, WithTop([Top EXCEPT !.n = 1, !.called = TRUE]))
               /\ UNCHANGED <<res, thrown>>
          [] outcome = "throw" ->
               /\ Unwind(g, TypeErr("Cannot read properties of undefined (reading 'some')"))
               /\ UNCHANGED <<res, inv, ok, er, outer, rejectedAt>>
          [] OTHER ->
               /\ res' = Send(res, GuardStatus(outcome), GuardBody(guard, outcome))
               /\ IF SendThrows(res)
                  THEN /\ Unwind(g, HeadersSentErr)
                       /\ UNCHANGED <<inv, ok, er, outer, rejectedAt>>
                  ELSE /\ stack' = Pop
                       /\ pc' = PcAfter(stack')
                       /\ rejectedAt' = NoteReject(g)
                       /\ UNCHANGED <<inv, ok, er, outer, xp, thrown>>
  /\ UNCHANGED <<envVars, req, route, handlerRuns, errRuns, authNext, spent>>

HasRoleMw == RunGuard("hasRole")
BelongsToTenantMw == RunGuard("belongsToTenant")

\* A guard that has finished returns to its caller
GuardReturn ==
  /\ pc = "run" /\ Top.kind = "guard"
  /\ route.guards[Top.g].kind = "stub" \/ Top.n > 0
  /\ stack' = Pop
  /\ pc' = PcAfter(stack')
  /\ rejectedAt' = IF Top.sent /\ ~Top.called THEN NoteReject(Top.g) ELSE rejectedAt
  /\ UNCHANGED <<envVars, req, route, res, inv, ok, er, thrown, outer, xp,
                 handlerRuns, errRuns, authNext, spent>>

\* ------------------------------------------------------------------------
\* Stub guards: arbitrary middleware given to authorizeMultiple.  A stub
\* performs up to MaxScript effects, one per step, then returns or throws;
\* the stubs of one request perform up to MaxEffects effects together.
\* ------------------------------------------------------------------------
StubErrors == {Err("Error", "guard failed"), Err(VALIDATION_ERROR, "bad input")}
StubStatuses == {HTTP_UNAUTHENTICATED, HTTP_FORBIDDEN}

StubReady ==
  /\ pc = "run" /\ Top.kind = "guard"
  /\ route.guards[Top.g].kind = "stub"
  /\ Top.n < MaxScript
  /\ spent < MaxEffects

\* The stub calls res.status(status).json(...)
StubSend ==
  /\ StubReady
  /\ \E status \in StubStatuses :
       /\ res' = Send(res, status, [message |-> "stub"])
       /\ IF SendThrows(res)
          THEN Unwind(Top.g, HeadersSentErr)
          ELSE /\ stack' = WithTop([Top EXCEPT !.n = @ + 1, !.sent = TRUE])
               /\ UNCHANGED <<pc, xp, thrown>>
  /\ UNCHANGED <<envVars, req, route, inv, ok, er, outer, handlerRuns, errRuns,
                 rejectedAt, authNext>>
  /\ spent' = spent + 1

\* The stub calls its continuation with no error
StubNext ==
  /\ StubReady
  /\ ContinueOk(Top.g, WithTop([Top EXCEPT !.n = @ + 1, !.called = TRUE]))
  /\ UNCHANGED <<envVars, req, route, res, thrown, handlerRuns, errRuns, authNext>>
  /\ spent' = spent + 1

\* The stub calls its continuation with an error
StubNextErr ==
  /\ StubReady
  /\ \E e \in StubErrors :
       ContinueErr(Top.g, e, WithTop([Top EXCEPT !.n = @ + 1, !.called = TRUE]))
  /\ UNCHANGED <<envVars, req, route, res, thrown, handlerRuns, errRuns, authNext>>
  /\ spent' = spent + 1

\* The stub throws
StubThrow ==
  /\ StubReady
  /\ Unwind(Top.g, Err("Error", "guard threw"))
  /\ UNCHANGED <<envVars, req, route, res, inv, ok, er, outer, handlerRuns, errRuns,
                 rejectedAt, authNext>>
  /\ spent' = spent + 1

\* ------------------------------------------------------------------------
\* The protected handler (controllers/v1) and the global error handler
\* ------------------------------------------------------------------------
Handler ==
  /\ pc = "run" /\ Top.kind = "handler"
  /\ handlerRuns' = handlerRuns + 1
  /\ res' = Send(res, HTTP_OK, [message |-> "Tenant ID", tenantId |-> req.params.tenantId])
  /\ IF SendThrows(res)
     THEN /\ stack' = AfterRouteError(Pop, HeadersSentErr)
          /\ xp' = "final"
     ELSE /\ stack' = Pop
          /\ xp' = xp
  /\ pc' = PcAfter(stack')
  /\ UNCHANGED <<envVars, req, route, inv, ok, er, thrown, outer, errRuns,
                 rejectedAt, authNext, spent>>

ErrorHandler ==
  /\ pc = "run" /\ Top.kind = "errorHandler"
  /\ errRuns' = errRuns + 1
  /\ res' = errorHandler(res, Top.e)
  /\ stack' = Pop
  /\ pc' = PcAfter(stack')
  /\ UNCHANGED <<envVars, req, route, inv, ok, er, thrown, outer, xp, handlerRuns,
                 rejectedAt, authNext, spent>>

\* ------------------------------------------------------------------------
\* The `authenticated` middleware (authentication.ts)
\* ------------------------------------------------------------------------
AuthRequiredBody ==
  [success |-> FALSE, message |-> "Authentication required. Please login to continue."]
AuthFailedBody(detail) ==
  [success |-> FALSE, message |-> "Authentication check failed", error |-> detail]

\* The catch block of `authenticated`: the exception's message goes into
\* the body of the 500 response
authenticatedCatch(r, error) ==
  Send(r, HTTP_INTERNAL_SERVER_ERROR, AuthFailedBody(error.message))

\* Faulty variant: no `return` after the 401 response, so control falls through to
\* the assignment and to next()
authenticated_noReturn ==
  /\ pc = "auth"
  /\ LET jwtPayload == hasValidSession(req.authorization, now)
     IN IF ~IsPresent(req.session)
        THEN /\ res' = IF IsPresent(jwtPayload)
                       THEN Send(res, HTTP_INTERNAL_SERVER_ERROR, AuthFailedBody("TypeError"))
                       ELSE Send(res, HTTP_UNAUTHENTICATED, AuthRequiredBody)
             /\ pc' = "done"
             /\ UNCHANGED <<req, authNext>>
        ELSE /\ res' = IF IsPresent(jwtPayload) THEN res
                       ELSE Send(res, HTTP_UNAUTHENTICATED, AuthRequiredBody)
             /\ req' = [req EXCEPT !.session = Some([user |-> jwtPayload])]
             /\ authNext' = authNext + 1
             /\ pc' = "guards"
  /\ UNCHANGED <<envVars, route, runVars>>

\* Faulty variant: an expired token is answered with a message of its own
authenticated_tellsExpired ==
  /\ pc = "auth"
  /\ LET jwtPayload == hasValidSession(req.authorization, now)
         unexpired == hasValidSession(req.authorization, 0)
     IN IF ~IsPresent(jwtPayload)
        THEN /\ res' = Send(res, HTTP_UNAUTHENTICATED,
                            IF IsPresent(unexpired)
                            THEN [success |-> FALSE, message |-> "Token expired"]
                            ELSE AuthRequiredBody)
             /\ pc' = "done"
             /\ UNCHANGED <<req, authNext>>
        ELSE IF ~IsPresent(req.session)
        THEN /\ res' = Send(res, HTTP_INTERNAL_SERVER_ERROR,
                            AuthFailedBody("Cannot set properties of undefined (setting 'user')"))
             /\ pc' = "done"
             /\ UNCHANGED <<req, authNext>>
        ELSE /\ req' = [req EXCEPT !.session = Some([user |-> jwtPayload])]
             /\ authNext' = authNext + 1
             /\ pc' = "guards"
             /\ res' = res
  /\ UNCHANGED <<envVars, route, runVars>>

authenticated ==
  /\ pc = "auth"
  /\ LET jwtPayload == hasValidSession(req.authorization, now)
     IN IF ~IsPresent(jwtPayload)
        THEN /\ res' = IF SendThrows(res)
                       THEN Send(Send(res, HTTP_UNAUTHENTICATED, AuthRequiredBody),
                                 HTTP_INTERNAL_SERVER_ERROR,
                                 AuthFailedBody(HeadersSentErr.message))
                       ELSE Send(res, HTTP_UNAUTHENTICATED, AuthRequiredBody)
             /\ pc' = "done"
             /\ UNCHANGED <<req, authNext>>
        ELSE IF ~IsPresent(req.session)
        THEN \* req.session is undefined: the assignment throws a TypeError
             /\ res' = authenticatedCatch(res,
                          TypeErr("Cannot set properties of undefined (setting 'user')"))
             /\ pc' = "done"
             /\ UNCHANGED <<req, authNext>>
        ELSE /\ req' = [req EXCEPT !.session = Some([user |-> jwtPayload])]
             /\ authNext' = authNext + 1
             /\ pc' = "guards"
             /\ res' = res
  /\ UNCHANGED <<envVars, route, runVars>>

\* ------------------------------------------------------------------------
\* Inputs
\* ------------------------------------------------------------------------
TenantIds == {"t1", "t2"}
Emails == {"a@b.com", "x@y.com"}
Passwords == {Str("secret123"), Str("wrong"), Str("")}

\* A row of the users table as signup leaves it: default role 'user'
SeedUser ==
  [id |-> "u1", email |-> "a@b.com", firstName |-> Some("Ada"), lastName |-> Some("Byron"),
   password |-> bcryptHash(Str("secret123"), 0), roles |-> <<"user">>]
InitialStores == {{}, {SeedUser}}

\* Claim sets handed to generateToken by callers other than login
TokenPayloads ==
  {Payload("u1", "a@b.com", Some(<<"user">>), Some("t1")),
   Payload("u2", "c@d.com", Some(<<"admin">>), Absent)}

\* The same token signed by somebody who does not hold JWT_SECRET
Forged(tok) == [tok EXCEPT !.key = "attacker-key"]

Req(header, session, params, body) ==
  [authorization |-> header, session |-> session,
   params |-> [tenantId |-> params], body |-> [tenantId |-> body]]

\* Logger.writeToFile: fs.appendFileSync throws when the sink fails
writeToFile(sinkFails) == sinkFails
\* Logger.info(message): writes to the file in production only; TRUE when
\* the call throws
info(isProd, sinkFails) == isProd /\ writeToFile(sinkFails)

SinkErr == Err("Error", "ENOSPC: no space left on device, open 'logs/app.log'")

\* What the request meets before the routes (server.ts 28-55)
FrontInput(parses, isProd, sinkFails, hits) ==
  [parses |-> parses, isProd |-> isProd, sinkFails |-> sinkFails, hits |-> hits]
\* `hits`: the requests the limiter has counted for the caller's IP in the
\* current 15-minute window, before this one
PriorHits == {0, RATE_LIMIT_MAX - 1, RATE_LIMIT_MAX}
FrontInputs ==
  {FrontInput(parses, isProd, sinkFails, hits) :
     parses \in BOOLEAN, isProd \in BOOLEAN, sinkFails \in BOOLEAN, hits \in PriorHits}

\* The body-parser's error for a body that is not JSON
BodyParseErr == Err("SyntaxError", "Unexpected token in JSON")
\* The limiter's answer: res.status(429).send(message), a text body
TooManyBody == [text |-> "Too many requests from this IP, please try again later."]

\* express-rate-limit: the request is counted, then refused when the count
\* exceeds max
limiter(hits) == hits + 1 > RATE_LIMIT_MAX

\* The middlewares server.ts mounts before the routes, in mounting order:
\* app.json(), requestLogger, limiter.  The result names the one that ends
\* the request, "routes" when the request goes on to the router.
Front(f) ==
  IF ~f.parses THEN "json"
  ELSE IF info(f.isProd, f.sinkFails) THEN "requestLogger"
  ELSE IF limiter(f.hits) THEN "limiter"
  ELSE "routes"

\* The inputs with which a request reaches the router, and what Front
\* makes of them
PassingInputs == {f \in FrontInputs : Front(f) = "routes"}
Passing == {Front(f) : f \in PassingInputs}

\* A request arrives for route rt; `front` is what Front made of it.  An
\* error of app.json() or requestLogger goes to errorHandler, the limiter
\* answers itself, and in both cases the routes are skipped.
Receive(header, session, params, body, rt, front) ==
  /\ req' = Req(header, session, params, body)
  /\ route' = [auth |-> rt.auth, guards |-> rt.guards, front |-> front]
  /\ res' = IF front = "limiter"
            THEN Send(NewRes, HTTP_TOO_MANY_REQUESTS, TooManyBody)
            ELSE NewRes
  /\ stack' = CASE front = "json" -> <<ErrorFrame(BodyParseErr)>>
               [] front = "requestLogger" -> <<ErrorFrame(SinkErr)>>
               [] OTHER -> <<>>
  /\ inv' = [g \in 1..Len(rt.guards) |-> 0]
  /\ ok' = [g \in 1..Len(rt.guards) |-> 0]
  /\ er' = [g \in 1..Len(rt.guards) |-> 0]
  /\ thrown' = {}
  /\ outer' = [ok |-> 0, err |-> 0, last |-> Err("", "")]
  /\ xp' = IF front = "routes" THEN "handler" ELSE "final"
  /\ handlerRuns' = 0
  /\ errRuns' = 0
  /\ rejectedAt' = 0
  /\ authNext' = 0
  /\ spent' = 0
  /\ pc' = CASE front \in {"json", "requestLogger"} -> "run"
            [] front = "limiter" -> "done"
            [] OTHER -> IF rt.auth THEN "auth" ELSE "guards"
  /\ UNCHANGED envVars

\* --- the pipeline: `authenticated`, role guards, handler -----------------
HeaderAtoms == {BearerW, Word("Basic"), Word("xyz"), Sp} \cup {Jwt(t) : t \in client} \cup {Jwt(Forged(t)) : t \in client}
\* server.ts installs no session middleware: req.session is undefined there
PipelineSessions == {Absent, Some([user |-> Absent])}
PipelineRoutes == {[auth |-> TRUE, guards |-> gs] : gs \in SeqsUpTo({isUser}, MaxGuards)}

\* A request with no Authorization header
ReceiveBare ==
  /\ pc = "idle"
  /\ \E session \in PipelineSessions, rt \in PipelineRoutes, front \in Passing :
       Receive(Absent, session, Some("t1"), Absent, rt, front)

\* A request that a middleware mounted before the routes ends: its body
\* does not parse, the log file cannot be written in production, or the
\* caller's IP is over the limit
RefusedRoutes == {[auth |-> a, guards |-> <<isUser>>] : a \in BOOLEAN}
ReceiveRefused ==
  /\ pc = "idle"
  /\ \E header \in {Absent} \cup {Some(<<BearerW, Sp, Jwt(t)>>) : t \in client},
        session \in PipelineSessions, rt \in RefusedRoutes,
        f \in FrontInputs \ PassingInputs :
       Receive(header, session, Some("t1"), Absent, rt, Front(f))

\* A request with an Authorization header of up to MaxHeaderLen atoms
ReceiveRequest ==
  /\ pc = "idle"
  /\ \E k \in 0..MaxHeaderLen :
       \E h \in [1..k -> HeaderAtoms], session \in PipelineSessions, rt \in PipelineRoutes,
          front \in Passing :
         Receive(Some(h), session, Some("t1"), Absent, rt, front)

\* No service method was called yet
NoCall == [fn |-> "none", n |-> 0, id |-> "", email |-> "", password |-> Str(""),
           newPassword |-> Str(""), data |-> [email |-> Absent, password |-> Absent],
           fault |-> "none", ok |-> FALSE, status |-> 0, cause |-> "none", user |-> Absent]

\* Nothing has happened yet in the parts of the system other than the
\* request pipeline and the credential store
NoFail == [at |-> "none"]
NoLogRun == [op |-> "none"]
NoTx == [pc |-> "none"]
NoProc == [pc |-> "none", signals |-> 0]
RedisKeys == {"users", "sessions"}
RedisFields == {"user:123", "user:456"}
NoRedis ==
  [store |-> [kf \in RedisKeys \X RedisFields |-> Absent],
   written |-> [kf \in RedisKeys \X RedisFields |-> Absent],
   str |-> [k \in RedisKeys |-> Absent],
   op |-> "none", key |-> "", field |-> "", ok |-> FALSE, result |-> Absent,
   all |-> [f \in RedisFields |-> Absent]]
InitSys ==
  /\ fail = NoFail
  /\ logrun = NoLogRun
  /\ reqs = <<>>
  /\ signups = <<>>
  /\ tx = NoTx
  /\ proc = NoProc
  /\ redis = NoRedis
  /\ ops = <<>>

\* Time passes between requests
Tick ==
  /\ pc = "idle"
  /\ now + ClockStep <= MaxTime
  /\ now' = now + ClockStep
  /\ UNCHANGED <<users, client, login, probe, call, ops, sysVars, pc, req, route, res, runVars, authNext>>

\* The client logs in through UserService.authenticateUser
Login ==
  /\ pc = "idle"
  /\ \E email \in Emails, password \in Passwords :
       LET r == authenticateUser(users, email, password, now)
       IN /\ login' = r
          /\ client' = IF r.ok THEN r.token ELSE client
  /\ UNCHANGED <<now, users, probe, call, ops, sysVars, pc, req, route, res, runVars, authNext>>

\* The client is handed a token generated for some claim set
IssueToken ==
  /\ pc = "idle"
  /\ \E p \in TokenPayloads : client' = Some(generateToken(p, now))
  /\ UNCHANGED <<now, users, login, probe, call, ops, sysVars, pc, req, route, res, runVars, authNext>>

NoLogin == [ok |-> FALSE, status |-> 0, token |-> Absent]
NoProbe == [fn |-> "none", claims |-> Absent, header |-> Absent, piece |-> <<>>,
            at |-> 0, result |-> Absent, verifyCalls |-> <<>>]
EmptyReq == Req(Absent, Absent, Absent, Absent)
NoRoute == [auth |-> FALSE, guards |-> <<>>, front |-> "routes"]

InitRun ==
  /\ pc = "idle"
  /\ req = EmptyReq
  /\ route = NoRoute
  /\ res = NewRes
  /\ stack = <<>>
  /\ inv = <<>> /\ ok = <<>> /\ er = <<>>
  /\ thrown = {}
  /\ outer = [ok |-> 0, err |-> 0, last |-> Err("", "")]
  /\ xp = "handler"
  /\ handlerRuns = 0 /\ errRuns = 0 /\ rejectedAt = 0 /\ authNext = 0 /\ spent = 0

\* The request is over: its request and response objects are dropped
Finish ==
  /\ pc = "done"
  /\ pc' = "idle"
  /\ req' = EmptyReq
  /\ route' = NoRoute
  /\ res' = NewRes
  /\ stack' = <<>>
  /\ inv' = <<>> /\ ok' = <<>> /\ er' = <<>>
  /\ thrown' = {}
  /\ outer' = [ok |-> 0, err |-> 0, last |-> Err("", "")]
  /\ xp' = "handler"
  /\ handlerRuns' = 0 /\ errRuns' = 0 /\ rejectedAt' = 0 /\ authNext' = 0
  /\ spent' = 0
  /\ UNCHANGED envVars

Init ==
  /\ now = 0
  /\ users \in InitialStores
  /\ client = Absent
  /\ login = NoLogin
  /\ probe = NoProbe
  /\ call = NoCall
  /\ InitSys
  /\ InitRun

Next ==
  \/ Tick
  \/ Login
  \/ IssueToken
  \/ ReceiveBare
  \/ ReceiveRequest
  \/ ReceiveRefused
  \/ authenticated
  \/ AuthorizeMultiple
  \/ HasRoleMw
  \/ GuardReturn
  \/ Handler
  \/ ErrorHandler
  \/ Finish

Spec == Init /\ [][Next]_vars


\* --- one guard, every principal ------------------------------------------
RoleLists == SeqsUpTo(UserRole, MaxRoles)
OptTenants == {Absent, Some(""), Some("t1"), Some("t2")}

\* A principal as `authenticated` attaches it: the decoded token claims
Principal(roles, tenantId) ==
  Decoded(generateToken(Payload("u1", "a@b.com", roles, tenantId), 0))
Principals ==
  {Principal(roles, t) : roles \in {Absent} \cup {Some(l) : l \in RoleLists},
                         t \in OptTenants}
GuardSessions ==
  {Absent, Some([user |-> Absent])} \cup {Some([user |-> Some(p)]) : p \in Principals}
SingleGuards == {HasRoleG(l) : l \in RoleLists} \cup {isAdmin, isManager, isUser, TenantG}

ReceiveGuarded ==
  /\ pc = "idle"
  /\ \E session \in GuardSessions, params \in OptTenants \ {Some("")},
        body \in OptTenants, g \in SingleGuards, front \in Passing :
       Receive(Absent, session, params, body, [auth |-> FALSE, guards |-> <<g>>], front)

InitGuard ==
  /\ now = 0
  /\ users = {}
  /\ client = Absent
  /\ login = NoLogin
  /\ probe = NoProbe
  /\ call = NoCall
  /\ InitSys
  /\ InitRun

NextGuard ==
  \/ ReceiveGuarded
  \/ ReceiveRefused
  \/ AuthorizeMultiple
  \/ HasRoleMw
  \/ BelongsToTenantMw
  \/ GuardReturn
  \/ Handler
  \/ ErrorHandler
  \/ Finish

SpecGuard == InitGuard /\ [][NextGuard]_vars

\* --- authorizeMultiple over stub and real guards -------------------------
ComposePrincipals ==
  {Principal(Some(<<"user">>), Some("t1")),
   Principal(Some(<<"manager">>), Absent),
   Principal(Some(<<>>), Some("t2")),
   Principal(Absent, Some("t1"))}
ComposeSessions == {Absent} \cup {Some([user |-> Some(p)]) : p \in ComposePrincipals}
ComposeGuards == {StubG, isAdmin, isManager, isUser, TenantG}

ReceiveComposed ==
  /\ pc = "idle"
  /\ \E k \in 0..MaxGuards :
       \E gs \in [1..k -> ComposeGuards], session \in ComposeSessions,
          params \in {Absent, Some("t1")}, body \in {Absent, Some("t2")},
          front \in Passing :
         Receive(Absent, session, params, body, [auth |-> FALSE, guards |-> gs], front)

NextCompose ==
  \/ ReceiveComposed
  \/ ReceiveRefused
  \/ AuthorizeMultiple
  \/ HasRoleMw
  \/ BelongsToTenantMw
  \/ StubSend
  \/ StubNext
  \/ StubNextErr
  \/ StubThrow
  \/ GuardReturn
  \/ Handler
  \/ ErrorHandler
  \/ Finish

SpecCompose == InitGuard /\ [][NextCompose]_vars


\* ========================================================================
\* Claims
\* ========================================================================
\* The request went past the middlewares mounted before the routes
Routed == route.front = "routes"
InFlight == Routed /\ pc \in {"auth", "guards", "run", "done"}
PastAuth == Routed /\ pc \in {"guards", "run", "done"}
NoGuardInvoked == \A g \in 1..NGuards : inv[g] = 0
WireStatus == IF IsPresent(res.wire) THEN The(res.wire).status ELSE 0

\* The only guard of the route has run (the route holds exactly one guard)
GuardActed ==
  /\ Routed /\ pc \in {"run", "done"}
  /\ ~(pc = "run" /\ Top.kind = "guard" /\ Top.n = 0)

\* C1: when hasValidSession returns null for the request's Authorization
\* header, `authenticated` sends exactly one response, with status 401,
\* never calls next (no guard and no protected handler runs) and never
\* writes req.session.user.
C1_NullSessionRejected ==
  (InFlight /\ route.auth /\ ~IsPresent(hasValidSession(req.authorization, now)))
    => /\ pc \in {"auth", "done"}
       /\ authNext = 0
       /\ NoGuardInvoked
       /\ handlerRuns = 0
       /\ ~IsPresent(SessionUser(req))
       /\ pc = "auth" => res = NewRes
       /\ pc = "done" => /\ res.calls = 1
                         /\ res.wire = Some([status |-> HTTP_UNAUTHENTICATED,
                                             body |-> AuthRequiredBody])

\* A request carrying "Bearer <forged or expired token>" on a guarded route,
\* with a session object present, was answered 401
C1_Witness ==
  /\ Routed /\ pc = "done" /\ route.auth /\ NGuards > 0
  /\ IsPresent(req.session)
  /\ IsPresent(req.authorization)
  /\ StartsWithBearer(The(req.authorization))
  /\ Len(The(req.authorization)) = 3
  /\ The(req.authorization)[3].kind = "jwt"
  /\ ~IsPresent(hasValidSession(req.authorization, now))
  /\ WireStatus = HTTP_UNAUTHENTICATED


\* C2: for a request whose Authorization header is "Bearer " followed by a
\* valid unexpired token, `authenticated` attaches the verified claims as
\* the request's principal and calls next exactly once, without sending a
\* rejection or error response.
C2_ValidTokenAttached ==
  (PastAuth /\ route.auth /\ IsPresent(hasValidSession(req.authorization, now)))
    => /\ authNext = 1
       /\ SessionUser(req) = hasValidSession(req.authorization, now)
       /\ pc = "guards" => res = NewRes

\* C10: the token a successful login returns carries the user's id, email
\* and role, and presenting it as "Bearer <token>" to a route guarded by
\* `authenticated` and the role guard for 'user' reaches the protected
\* handler, which answers 200.
LoginTokenCarriesRole ==
  login.ok =>
    \E u \in users :
      /\ The(login.token).payload.userId = u.id
      /\ The(login.token).payload.email = u.email
      /\ The(login.token).payload.roles = Some(u.roles)

LoginTokenPresented ==
  /\ login.ok
  /\ req.authorization = Some(<<BearerW, Sp, Jwt(The(login.token))>>)
  /\ now < The(login.token).exp
  /\ Routed /\ route.auth /\ route.guards = <<isUser>>

C10_LoginTokenReachesHandler ==
  /\ LoginTokenCarriesRole
  /\ (pc = "done" /\ LoginTokenPresented)
       => (handlerRuns = 1 /\ WireStatus = HTTP_OK /\ thrown = {})

\* The second half of C10 alone: it fails for a request object that has a
\* session, and for one that has none
C10_HandlerReached ==
  (pc = "done" /\ LoginTokenPresented)
    => (handlerRuns = 1 /\ WireStatus = HTTP_OK /\ thrown = {})


\* ------------------------------------------------------------------------
\* authorizeMultiple
\* ------------------------------------------------------------------------
Chain == Routed /\ pc \in {"run", "done"}
AtMostOnce == \A g \in 1..NGuards : ok[g] + er[g] <= 1
AllPassed == \A g \in 1..NGuards : ok[g] >= 1

RECURSIVE SumTo(_, _)
SumTo(f, n) == IF n = 0 THEN 0 ELSE f[n] + SumTo(f, n - 1)

\* Guard 1 is invoked once; guard g+1 is invoked only by a call of guard
\* g's continuation with no error
InOrder ==
  Chain => /\ NGuards > 0 => inv[1] = 1
           /\ \A g \in 2..NGuards : inv[g] = ok[g - 1]

\* Every error given to a continuation has reached the outer next, once
ErrorsForwarded ==
  Chain => /\ outer.err = SumTo(er, NGuards)
           /\ outer.err > 0 => outer.last \in StubErrors

\* In this step no guard after the first rejecting one is invoked
NoLaterGuard ==
  (Chain /\ pc' # "idle" /\ rejectedAt # 0)
    => \A g \in (rejectedAt + 1)..NGuards : inv'[g] = inv[g]

\* C3 as stated: authorizeMultiple invokes the guards strictly in order,
\* g(i+1) only after g(i) called its continuation without an error; once a
\* guard has rejected, no later guard is ever invoked; a continuation error
\* is forwarded to the outer next exactly once.
C3_Original == [][InOrder' /\ NoLaterGuard /\ ErrorsForwarded']_vars

\* C3 amended: the same, for guards that each call their continuation at
\* most once.
C3_SequentialShortCircuit ==
  [][AtMostOnce' => (InOrder' /\ NoLaterGuard /\ ErrorsForwarded')]_vars

\* A chain of two guards whose first guard rejected with a continuation
\* error: the error reached the outer next and the second guard never ran
C3_Witness ==
  /\ Routed /\ pc = "done" /\ NGuards = 2 /\ AtMostOnce
  /\ rejectedAt = 1 /\ er[1] = 1 /\ outer.err = 1
  /\ inv[2] = 0

\* C4: for guards that each call their continuation at most once,
\* authorizeMultiple calls the outer next() without error if and only if
\* every guard passed, and then exactly once (at once when there is no
\* guard); the protected handler is never reached while a guard has not
\* passed.
C4_OuterNextIffAllPassed ==
  (Chain /\ AtMostOnce)
    => /\ outer.ok <= 1
       /\ outer.ok = 1 <=> AllPassed
       /\ handlerRuns > 0 => AllPassed
       /\ (\E i \in 1..Len(stack) : stack[i].kind = "handler") => AllPassed

\* Two guards that both passed: the outer next was called once and the
\* handler ran
C4_Witness ==
  /\ Routed /\ pc = "done" /\ NGuards = 2 /\ AtMostOnce
  /\ ok[1] = 1 /\ ok[2] = 1
  /\ outer.ok = 1 /\ handlerRuns = 1


\* ------------------------------------------------------------------------
\* hasRole and belongsToTenant
\* ------------------------------------------------------------------------
Attached == IsPresent(SessionUser(req))
ThePrincipal == The(SessionUser(req))

\* The principal's role set; empty when the token claims carry no roles
RoleSet(p) == IF IsPresent(p.roles) THEN Elems(The(p.roles)) ELSE {}

\* The tenant identifier a request asks for: the routing parameter, the
\* body value when there is no routing parameter
Requested == IF IsPresent(req.params.tenantId) THEN req.params.tenantId
             ELSE req.body.tenantId

RolesIntersect(g) == RoleSet(ThePrincipal) \cap Elems(g.roles) # {}
TenantMatches == /\ Truthy(ThePrincipal.tenantId)
                 /\ ThePrincipal.tenantId = Requested

\* What the check of guard g asks of the attached principal
Passes(g) == IF g.kind = "hasRole" THEN RolesIntersect(g) ELSE TenantMatches

\* The route's single guard, of the given kind, has run
SoleGuardActed(kind) ==
  /\ NGuards = 1 /\ route.guards[1].kind = kind
  /\ GuardActed

\* The guard called next once, sent nothing and threw nothing
Passed == ok[1] = 1 /\ er[1] = 0 /\ thrown = {} /\ rejectedAt = 0
\* The guard answered with the status, did not call next and threw nothing
RejectedWith(status) ==
  /\ ok[1] = 0 /\ er[1] = 0 /\ thrown = {} /\ handlerRuns = 0
  /\ WireStatus = status /\ res.calls = 1

\* C5: for every attached principal and every list of allowed roles,
\* hasRole(allowedRoles) calls next if and only if the principal's role set
\* intersects allowedRoles; otherwise it responds 403 and does not call next.
C5_RoleGuardIffIntersects ==
  (SoleGuardActed("hasRole") /\ Attached)
    => IF RolesIntersect(route.guards[1]) THEN Passed
       ELSE RejectedWith(HTTP_FORBIDDEN)

\* C9: for a principal whose roles are absent or empty, hasRole(allowedRoles)
\* rejects with 403 for every allowedRoles list and never throws an
\* exception past the guard.
C9_NoRolesForbidden ==
  (SoleGuardActed("hasRole") /\ Attached /\ RoleSet(ThePrincipal) = {})
    => RejectedWith(HTTP_FORBIDDEN)

\* C7: for every attached principal and every requested tenant identifier,
\* belongsToTenant() calls next if and only if the principal's tenantId is
\* non-empty and equal to the requested identifier; a mismatch or an absent
\* principal tenantId, whatever the requested identifier, is rejected with
\* 403.
C7_TenantGuardIffSameTenant ==
  (SoleGuardActed("belongsToTenant") /\ Attached)
    => IF TenantMatches THEN Passed ELSE RejectedWith(HTTP_FORBIDDEN)

\* A principal without tenantId asking for no tenant at all was answered 403
C7_Witness ==
  /\ SoleGuardActed("belongsToTenant") /\ Attached /\ pc = "done"
  /\ ~IsPresent(ThePrincipal.tenantId)
  /\ ~IsPresent(req.params.tenantId) /\ ~IsPresent(req.body.tenantId)
  /\ RejectedWith(HTTP_FORBIDDEN)

\* C8: when a request carries a tenant identifier both in its routing
\* parameters and in its body, the tenant guard compares the principal's
\* tenantId against the routing parameter only; the body value is used only
\* when the routing parameter is absent.
C8_RouteParameterFirst ==
  (SoleGuardActed("belongsToTenant") /\ Attached /\ Truthy(ThePrincipal.tenantId))
    => /\ (IsPresent(req.params.tenantId) /\ IsPresent(req.body.tenantId))
            => IF ThePrincipal.tenantId = req.params.tenantId THEN Passed
               ELSE RejectedWith(HTTP_FORBIDDEN)
       /\ ~IsPresent(req.params.tenantId)
            => IF ThePrincipal.tenantId = req.body.tenantId THEN Passed
               ELSE RejectedWith(HTTP_FORBIDDEN)

\* Parameter "t1", body "t2", principal of tenant "t2": rejected with 403
C8_Witness ==
  /\ SoleGuardActed("belongsToTenant") /\ Attached /\ pc = "done"
  /\ req.params.tenantId = Some("t1") /\ req.body.tenantId = Some("t2")
  /\ ThePrincipal.tenantId = Some("t2")
  /\ RejectedWith(HTTP_FORBIDDEN)

\* A chain of hasRole and belongsToTenant guards only
ConcreteChain == \A g \in 1..NGuards : route.guards[g].kind # "stub"
FailingGuards == {g \in 1..NGuards : ~Attached \/ ~Passes(route.guards[g])}

\* C6: hasRole and belongsToTenant respond 401 exactly when no principal is
\* attached and 403 exactly when a principal is attached but the check
\* fails; in a composed chain the status the caller sees is the status sent
\* by the first rejecting guard, never overwritten.
C6_UnauthenticatedVsForbidden ==
  (Routed /\ pc = "done" /\ NGuards > 0 /\ ConcreteChain)
    => /\ WireStatus = HTTP_UNAUTHENTICATED <=> ~Attached
       /\ WireStatus = HTTP_FORBIDDEN <=> (Attached /\ FailingGuards # {})
       /\ WireStatus = HTTP_OK <=> FailingGuards = {}
       /\ res.calls = 1
       /\ res.statusCode = WireStatus


\* ========================================================================
\* The token functions called directly (jwt.ts)
\* ========================================================================
\* Every claim set a caller can hand to generateToken
ClaimRoles == {Absent, Some(<<>>), Some(<<"user">>), Some(<<"admin", "manager">>)}
ClaimSets == {Payload("u1", "a@b.com", roles, t) : roles \in ClaimRoles, t \in OptTenants}

\* The atoms of the headers handed to hasValidSession
ProbeAtoms == {BearerW, Word("Basic"), Sp} \cup {Jwt(t) : t \in client}

\* Texts a caller can hand to verifyToken, given a token tok it holds: the
\* token, the token signed with another key, and two malformed texts
Pieces(tok) ==
  {<<Jwt(tok)>>, <<Jwt(Forged(tok))>>, <<Word("xyz")>>, <<Jwt(tok), Word("x")>>}

\* generateToken(claims) is called and the client keeps the token
IssueClaims ==
  /\ pc = "idle"
  /\ \E c \in ClaimSets :
       /\ client' = Some(generateToken(c, now))
       /\ probe' = [NoProbe EXCEPT !.fn = "generateToken", !.claims = Some(c), !.at = now]
  /\ UNCHANGED <<now, users, login, call, ops, sysVars, pc, req, route, res, runVars, authNext>>

\* verifyToken(text) is called
VerifyProbe ==
  /\ pc = "idle" /\ IsPresent(client)
  /\ \E piece \in Pieces(The(client)) :
       probe' = [NoProbe EXCEPT !.fn = "verifyToken", !.claims = probe.claims,
                                !.piece = piece, !.at = now,
                                !.result = verifyToken(piece, now)]
  /\ UNCHANGED <<now, users, client, login, call, ops, sysVars, pc, req, route, res, runVars, authNext>>

\* hasValidSession(header) is called
ResolveProbe ==
  /\ pc = "idle"
  /\ \E header \in {Absent} \cup {Some(h) : h \in SeqsUpTo(ProbeAtoms, MaxHeaderLen)} :
       LET run == hasValidSessionRun(header, now)
       IN probe' = [NoProbe EXCEPT !.fn = "hasValidSession", !.claims = probe.claims,
                                   !.header = header, !.at = now,
                                   !.result = run.result,
                                   !.verifyCalls = run.verifyCalls]
  /\ UNCHANGED <<now, users, client, login, call, ops, sysVars, pc, req, route, res, runVars, authNext>>

NextToken ==
  \/ Tick
  \/ IssueClaims
  \/ VerifyProbe
  \/ ResolveProbe

SpecToken == InitGuard /\ [][NextToken]_vars


\* ------------------------------------------------------------------------
\* Claims on the token functions
\* ------------------------------------------------------------------------
Resolved == probe.fn = "hasValidSession"
Verified == probe.fn = "verifyToken"
HeaderText == The(probe.header)

\* The header does not begin with the word Bearer followed by one space
LacksBearerPrefix ==
  \/ Len(HeaderText) < 2
  \/ HeaderText[1] # Word("Bearer")
  \/ HeaderText[2] # Sp
\* Nothing, or a further space, follows the prefix
EmptyAfterPrefix ==
  /\ ~LacksBearerPrefix
  /\ Len(HeaderText) = 2 \/ HeaderText[3] = Sp

\* C11: hasValidSession returns null, without calling verifyToken, whenever
\* the header is absent, empty, does not start with 'Bearer ' or has an
\* empty token after the prefix.
C11_NoTokenNoVerification ==
  (Resolved /\ (\/ ~IsPresent(probe.header)
                \/ HeaderText = <<>>
                \/ LacksBearerPrefix
                \/ EmptyAfterPrefix))
    => /\ probe.result = Absent
       /\ probe.verifyCalls = <<>>

\* hasValidSession was given "Bearer " with nothing behind it
C11_Witness ==
  /\ Resolved /\ IsPresent(probe.header)
  /\ HeaderText = <<Word("Bearer"), Sp>>
  /\ probe.result = Absent /\ probe.verifyCalls = <<>>

\* The token the client holds, the claims it was issued for
Held == The(client)
IssuedFor == The(probe.claims)
SameClaims(p, c) ==
  /\ p.userId = c.userId /\ p.email = c.email
  /\ p.roles = c.roles /\ p.tenantId = c.tenantId

\* C12: for every claim set C, verifyToken(generateToken(C)) and
\* hasValidSession('Bearer ' + generateToken(C)), evaluated before the
\* expiration, return claims whose userId, email, roles and tenantId are
\* those of C.
C12_RoundTrip ==
  /\ (Verified /\ probe.piece = <<Jwt(Held)>> /\ probe.at < Held.iat + 24)
       => /\ IsPresent(probe.result)
          /\ SameClaims(The(probe.result), IssuedFor)
  /\ (Resolved /\ IsPresent(client)
               /\ probe.header = Some(<<Word("Bearer"), Sp, Jwt(Held)>>)
               /\ probe.at < Held.iat + 24)
       => /\ IsPresent(probe.result)
          /\ SameClaims(The(probe.result), IssuedFor)

\* A token for claims with roles and a tenant, issued earlier, came back
\* from hasValidSession with the same claims
C12_Witness ==
  /\ Resolved /\ IsPresent(client)
  /\ probe.header = Some(<<Word("Bearer"), Sp, Jwt(Held)>>)
  /\ probe.at > Held.iat
  /\ IssuedFor.roles = Some(<<"admin", "manager">>) /\ IssuedFor.tenantId = Some("t1")
  /\ IsPresent(probe.result) /\ SameClaims(The(probe.result), IssuedFor)

\* C13: verifyToken accepts a token only if it was signed with the server's
\* secret and its expiration, fixed at issuance to the issuance time plus 24
\* hours, has not elapsed; past its expiration every token is refused,
\* whatever its signature, at every later time.
C13_SignedAndUnexpiredOnly ==
  /\ probe.fn = "generateToken" => (Held.iat = probe.at /\ Held.exp = probe.at + 24)
  /\ Verified
       => /\ IsPresent(probe.result)
               => /\ Len(probe.piece) = 1 /\ probe.piece[1].kind = "jwt"
                  /\ probe.piece[1].tok.key = "your-secret-key"
                  /\ probe.at < probe.piece[1].tok.iat + 24
          /\ \A i \in 1..Len(probe.piece) :
               (probe.piece[i].kind = "jwt" /\ probe.at >= probe.piece[i].tok.iat + 24)
                 => probe.result = Absent

\* The server's own token, handed to verifyToken once its 24 hours were
\* over, was refused
C13_Witness ==
  /\ Verified /\ probe.piece = <<Jwt(Held)>>
  /\ Held.key = "your-secret-key"
  /\ probe.at >= Held.iat + 24
  /\ probe.result = Absent


\* The request presents "Bearer x": one text after the prefix
Presented == The(req.authorization)[3]
PresentsOneText ==
  /\ Routed /\ pc = "done" /\ route.auth
  /\ IsPresent(req.authorization) /\ Len(The(req.authorization)) = 3
  /\ The(req.authorization)[1] = Word("Bearer") /\ The(req.authorization)[2] = Sp
  /\ Presented # Sp

\* Why the presented text is no valid token
Malformed == Presented.kind # "jwt"
BadSignature == Presented.kind = "jwt" /\ Presented.tok.key # "your-secret-key"
Expired == Presented.kind = "jwt" /\ now >= Presented.tok.iat + 24

\* C14: tokens failing for different reasons (bad signature, malformed
\* structure, expired) are indistinguishable: verifyToken and hasValidSession
\* return null for each, and `authenticated` answers each with one and the
\* same status and body.
C14_UniformFailure ==
  (PresentsOneText /\ (Malformed \/ BadSignature \/ Expired))
    => /\ verifyToken(<<Presented>>, now) = Absent
       /\ hasValidSession(req.authorization, now) = Absent
       /\ res.calls = 1
       /\ res.wire = Some([status |-> 401,
                           body |-> [success |-> FALSE,
                                     message |-> "Authentication required. Please login to continue."]])

\* A token with the server's signature, presented after its expiry, was
\* answered like any other failing text
C14_Witness ==
  /\ PresentsOneText /\ Expired /\ ~BadSignature
  /\ WireStatus = 401


\* ========================================================================
\* The credential store and the services over it
\* (entity/user.entity, services/user, services/auth, core/common/bcrypt)
\* ========================================================================
\* What a service call comes to: its return value, or the status of the
\* AppError it throws (0 for an Error that carries no status), and the
\* users table it leaves
Done(store, user) ==
  [ok |-> TRUE, status |-> 0, cause |-> "none", users |-> store, user |-> user]
Thrown(store, status, cause) ==
  [ok |-> FALSE, status |-> status, cause |-> cause, users |-> store, user |-> Absent]

\* A collaborator that fails during a call: the database or bcrypt
Faults == {"none", "store", "hasher"}

\* The id of an entity that has none (undefined)
NoId == ""

\* userRepository.create({email, password}): no first and no last name is
\* set; roles take the column default
NewUser(id, email, password) ==
  [id |-> id, email |-> email, firstName |-> Absent, lastName |-> Absent,
   password |-> password, roles |-> <<"user">>]

\* bcrypt.ts hashPassword(password): the hash, or an AppError with status 500
hashPassword(password, salt, fault) ==
  IF fault = "hasher"
  THEN [ok |-> FALSE, status |-> HTTP_INTERNAL_SERVER_ERROR, value |-> password]
  ELSE [ok |-> TRUE, status |-> 0, value |-> bcryptHash(password, salt)]

\* User.hashPassword(), the BeforeInsert and BeforeUpdate hook
BeforeSave(user, salt, fault) ==
  IF NonEmpty(user.password)
  THEN LET h == hashPassword(user.password, salt, fault)
       IN [ok |-> h.ok, status |-> h.status, user |-> [user EXCEPT !.password = h.value]]
  ELSE [ok |-> TRUE, status |-> 0, user |-> user]

\* User.validatePassword(password)
validatePassword(user, password) == bcryptCompare(password, user.password)

\* userRepository.findOne({ where: { id } })
getUserById(store, id) == {u \in store : u.id = id}

\* The uuid the INSERT generates for a row that has none
Uuids == {"u1", "u2", "u3"}
uuid(store) == CHOOSE id \in Uuids : getUserById(store, id) = {}

\* The INSERT into the users table: firstName and lastName are declared
\* without `nullable` and without a default, id is the primary key, email
\* is declared unique.  A row that breaks a constraint is refused with a
\* QueryFailedError.
insert(store, row) ==
  LET new == IF row.id = NoId THEN [row EXCEPT !.id = uuid(store)] ELSE row
  IN IF ~IsPresent(row.firstName) \/ ~IsPresent(row.lastName)
     THEN Thrown(store, 0, "notNull")
     ELSE IF getUserById(store, new.id) # {} \/ findUserByEmail(store, new.email) # {}
     THEN Thrown(store, 0, "conflict")
     ELSE Done(store \cup {new}, Some(new))

\* userRepository.save(entity) is three steps.  First the row of the
\* entity's id is loaded; an entity that equals its row is not written.
load(store, entity) == getUserById(store, entity.id)
Unchanged(entity, row) == row # {} /\ The(row) = entity

\* The row `cur` after an UPDATE that sets the columns in which the entity
\* differs from the row `old` that save had loaded
Changed(entity, old, cur) ==
  [id |-> cur.id,
   email |-> IF entity.email # old.email THEN entity.email ELSE cur.email,
   firstName |-> IF entity.firstName # old.firstName THEN entity.firstName
                 ELSE cur.firstName,
   lastName |-> IF entity.lastName # old.lastName THEN entity.lastName ELSE cur.lastName,
   password |-> IF entity.password # old.password THEN entity.password ELSE cur.password,
   roles |-> IF entity.roles # old.roles THEN entity.roles ELSE cur.roles]

\* The UPDATE ... WHERE id: a row that is gone is not written, an email
\* that another row holds is refused
updateRow(store, entity, old) ==
  LET cur == getUserById(store, entity.id)
  IN IF cur = {} THEN Done(store, Some(entity))
     ELSE IF entity.email # old.email /\ \E o \in store \ cur : o.email = entity.email
     THEN Thrown(store, 0, "conflict")
     ELSE Done((store \ cur) \cup {Changed(entity, old, The(cur))}, Some(entity))

\* Last step of save, after the hook (the second step, BeforeSave): the
\* entity is inserted when no row was loaded, else its row is updated
write(store, entity, row) ==
  IF row = {} THEN insert(store, entity) ELSE updateRow(store, entity, The(row))

\* userRepository.save(entity) with no other call between its steps
save(store, entity, salt, fault) ==
  LET row == load(store, entity)
      hooked == BeforeSave(entity, salt, fault)
  IN IF fault = "store" THEN Thrown(store, 0, "store")
     ELSE IF Unchanged(entity, row) THEN Done(store, Some(entity))
     ELSE IF ~hooked.ok THEN Thrown(store, hooked.status, "hasher")
     ELSE write(store, hooked.user, row)

\* userRepository.remove(entity): the row of that id goes, if it is there;
\* the entity comes back without its id
remove(store, entity) ==
  Done(store \ getUserById(store, entity.id), Some([entity EXCEPT !.id = NoId]))

\* UserService.createUser(email, password) with no other call between the
\* steps of its save; id is the uuid the insert draws
createUser(store, email, password, id, salt, fault) ==
  save(store, NewUser(id, email, password), salt, fault)

\* Object.assign(user, updateData)
Assign(user, data) ==
  [user EXCEPT !.email = IF IsPresent(data.email) THEN The(data.email) ELSE @,
               !.password = IF IsPresent(data.password) THEN The(data.password) ELSE @]

\* UserService.updateUser(id, updateData) up to its save: the row is read,
\* the call throws 404 when there is none, the update is assigned to the
\* entity read
updateUser(store, id, data, fault) ==
  LET found == getUserById(store, id)
  IN IF fault = "store" THEN Thrown(store, 0, "store")
     ELSE IF found = {} THEN Thrown(store, HTTP_NOT_FOUND, "notFound")
     ELSE Done(store, Some(Assign(The(found), data)))

\* UserService.deleteUser(id) up to its remove: the row is read, the call
\* throws 404 when there is none
deleteUser(store, id) ==
  LET found == getUserById(store, id)
  IN IF found = {} THEN Thrown(store, HTTP_NOT_FOUND, "notFound")
     ELSE Done(store, found)

\* The catch block of an AuthService method: whatever was thrown leaves as
\* an AppError with the method's status
Rethrow(out, status) == IF out.ok THEN out ELSE [out EXCEPT !.status = status]

\* Faulty variant: the password is not compared
AuthService_login_noPasswordCheck(store, email, password, fault) ==
  LET found == findUserByEmail(store, email)
  IN Rethrow(IF fault = "store" THEN Thrown(store, 0, "store")
             ELSE IF found = {} THEN Thrown(store, HTTP_NOT_FOUND, "notFound")
             ELSE Done(store, found),
             HTTP_UNAUTHENTICATED)

\* AuthService.login(email, password): the row is read once, the password is
\* compared with the copy read
AuthService_login(store, email, password, fault) ==
  LET found == findUserByEmail(store, email)
  IN Rethrow(IF fault = "store" THEN Thrown(store, 0, "store")
             ELSE IF found = {} THEN Thrown(store, HTTP_NOT_FOUND, "notFound")
             ELSE IF fault = "hasher" THEN Thrown(store, 0, "hasher")
             ELSE IF ~bcryptCompare(password, The(found).password)
             THEN Thrown(store, HTTP_UNAUTHENTICATED, "badPassword")
             ELSE Done(store, found),
             HTTP_UNAUTHENTICATED)

\* AuthService.signup({email, password}) up to its call of createUser: the
\* email is looked up, the call throws when a user has it
signup(store, email, password, fault) ==
  Rethrow(IF fault = "store" THEN Thrown(store, 0, "store")
          ELSE IF findUserByEmail(store, email) # {}
          THEN Thrown(store, HTTP_BAD_REQUEST, "exists")
          ELSE Done(store, Some(NewUser(NoId, email, password))),
          HTTP_BAD_REQUEST)

\* Faulty variant: the current password is not compared
changePassword_noVerify(store, id, current, new, salt, fault) ==
  LET found == getUserById(store, id)
  IN [out |-> Rethrow(IF fault = "store" THEN Thrown(store, 0, "store")
                      ELSE IF found = {} THEN Thrown(store, HTTP_NOT_FOUND, "notFound")
                      ELSE IF fault = "hasher" THEN Thrown(store, 0, "hasher")
                      ELSE Done(store, found),
                      HTTP_BAD_REQUEST),
      update |-> [email |-> Absent,
                  password |-> Some(hashPassword(new, salt, fault).value)]]

\* AuthService.changePassword(userId, currentPassword, newPassword) up to
\* its call of updateUser: the user is read, the current password is
\* compared with the copy read, the new password is hashed.  `update` is
\* what the call then hands to updateUser.
changePassword(store, id, current, new, salt, fault) ==
  LET found == getUserById(store, id)
  IN [out |-> Rethrow(IF fault = "store" THEN Thrown(store, 0, "store")
                      ELSE IF found = {} THEN Thrown(store, HTTP_NOT_FOUND, "notFound")
                      ELSE IF fault = "hasher" THEN Thrown(store, 0, "hasher")
                      ELSE IF ~bcryptCompare(current, The(found).password)
                      THEN Thrown(store, HTTP_UNAUTHENTICATED, "badPassword")
                      ELSE Done(store, found),
                      HTTP_BAD_REQUEST),
      update |-> [email |-> Absent,
                  password |-> Some(hashPassword(new, salt, fault).value)]]

\* `return true`: changePassword hands no user back
ReturnsTrue(out) == IF out.ok THEN [out EXCEPT !.user = Absent] ELSE out

\* What the save of the call c comes to for its caller: changePassword and
\* signup rethrow with status 400, changePassword returns true
Returned(c, out) ==
  IF c.fn = "changePassword" THEN Rethrow(ReturnsTrue(out), HTTP_BAD_REQUEST)
  ELSE IF c.fn = "signup" THEN Rethrow(out, HTTP_BAD_REQUEST)
  ELSE out

\* DatabaseService.query(text, params): the statement runs on the table as
\* it is; no entity is loaded and no hook runs
\* The ids a call names
Ids == {"u1", "u2"}
Delete_sql == "DELETE FROM users WHERE id = $1"
Update_sql == "UPDATE users SET email = $2 WHERE id = $1"
Statements ==
  {<<Delete_sql, <<id>>>> : id \in Ids}
    \cup {<<Update_sql, <<id, email>>>> : id \in Ids, email \in Emails}
query(store, text, params) ==
  LET rows == getUserById(store, params[1])
  IN IF text = Delete_sql THEN Done(store \ rows, Absent)
     ELSE IF rows = {} THEN Done(store, Absent)
     ELSE IF \E o \in store \ rows : o.email = params[2]
     THEN Thrown(store, 0, "conflict")
     ELSE Done((store \ rows) \cup {[The(rows) EXCEPT !.email = params[2]]}, Absent)


\* --- the services called by concurrent requests --------------------------
\* A call runs to its first `await` of a query when it is made; every later
\* query is a step of its own, and steps of other calls run in between.
MaxCalls == 2         \* service calls in one run
\* What the calls of a run supply: the email and the passwords of an
\* update, the passwords of a new user, the current and the new password
\* of a password change
UpdateData ==
  {[email |-> e, password |-> p] :
     e \in {Absent, Some("x@y.com")},
     p \in {Absent, Some(Str("wrong")), Some(Str(""))}}
CreatePasswords == {Str("secret123"), Str("")}
CurrentPasswords == {Str("secret123"), Str("wrong")}
NewPasswords == {Str("wrong"), Str("")}

\* The calls of login, signup and changePassword that are made: every
\* combination of the arguments while the collaborators work, one call per
\* failing collaborator
LoginPasswords == {Str("secret123"), Str("wrong")}
LoginInputs ==
  {<<email, password, "none">> : email \in Emails, password \in LoginPasswords}
    \cup {<<"a@b.com", Str("secret123"), fault>> : fault \in Faults}
SignupInputs ==
  {<<email, password, "none">> : email \in Emails, password \in CreatePasswords}
    \cup {<<"x@y.com", Str("secret123"), fault>> : fault \in Faults}
ChangePasswordInputs ==
  {<<id, current, Str("wrong"), "none">> : id \in Ids, current \in CurrentPasswords}
    \cup {<<"u1", Str("secret123"), new, "none">> : new \in NewPasswords}
    \cup {<<"u1", Str("secret123"), Str("wrong"), fault>> : fault \in Faults}

\* A second row, as another signup left it
OtherUser ==
  [id |-> "u2", email |-> "x@y.com", firstName |-> Some("Alan"), lastName |-> Some("Kay"),
   password |-> bcryptHash(Str("wrong"), 0), roles |-> <<"user">>]
StoreTables == InitialStores \cup {{SeedUser, OtherUser}}

\* The calls made so far
Started == call.n + Len(ops)

\* bcrypt.genSalt(SALT_ROUNDS) draws a salt no earlier hashing has used: the
\* first and the second salt drawn by the k-th call
SaltOf(k, nth) == 2 * k + nth
Salt1 == SaltOf(Started, 1)

\* The uuid the next insert draws
FreeIds == {id \in Ids : getUserById(users, id) = {}}

\* A call that awaits a query: the record of the call, the query it awaits,
\* the entity its first query read, the entity it holds now, the row its
\* save loaded, the update it is about to hand to updateUser
Op(c, step, entity, update) ==
  [c |-> c, k |-> Started, pc |-> step, seen |-> entity, entity |-> entity,
   row |-> Absent, update |-> update]
NoUpdate == [email |-> Absent, password |-> Absent]
Remove(s, i) == SubSeq(s, 1, i - 1) \o SubSeq(s, i + 1, Len(s))

\* The call returns or throws: the table and the record of the call change
Outcome(out, c, rest) ==
  /\ users' = out.users
  /\ call' = [c EXCEPT !.n = call.n + 1, !.ok = out.ok, !.status = out.status,
                       !.cause = out.cause, !.user = out.user]
  /\ ops' = rest
  /\ UNCHANGED <<now, client, probe, sysVars, pc, req, route, res, runVars, authNext>>

\* The call goes on to await its next query
Await(next) ==
  /\ ops' = next
  /\ UNCHANGED <<now, users, client, probe, call, sysVars, pc, req, route, res, runVars,
                 authNext>>

\* createUser is called: userRepository.create, then save
CreateUser ==
  /\ pc = "idle" /\ Started < MaxCalls
  /\ \E email \in Emails, password \in CreatePasswords :
       Await(Append(ops, Op([NoCall EXCEPT !.fn = "createUser", !.email = email,
                                           !.password = password],
                            "save", Some(NewUser(NoId, email, password)), NoUpdate)))
  /\ login' = login

\* updateUser is called: findOne, Object.assign
UpdateUser ==
  /\ pc = "idle" /\ Started < MaxCalls
  /\ \E id \in Ids, data \in UpdateData :
       LET c == [NoCall EXCEPT !.fn = "updateUser", !.id = id, !.data = data]
           found == updateUser(users, id, data, "none")
       IN IF found.ok
          THEN Await(Append(ops, Op(c, "save", found.user, NoUpdate)))
          ELSE Outcome(found, c, ops)
  /\ login' = login

\* The save of a createUser or updateUser call loads the row of the entity
Save ==
  /\ pc = "idle"
  /\ \E i \in 1..Len(ops) :
       /\ ops[i].pc = "save"
       /\ LET row == load(users, The(ops[i].entity))
          IN IF Unchanged(The(ops[i].entity), row)
             THEN Outcome(Returned(ops[i].c, Done(users, ops[i].entity)),
                          ops[i].c, Remove(ops, i))
             ELSE Await([ops EXCEPT ![i].pc = "hook", ![i].row = row])
  /\ login' = login

\* The BeforeInsert or BeforeUpdate hook of a save: bcrypt has hashed the
\* password of the entity, or has failed
SaveHook ==
  /\ pc = "idle"
  /\ \E i \in 1..Len(ops) :
       /\ ops[i].pc = "hook"
       /\ LET hooked == BeforeSave(The(ops[i].entity), SaltOf(ops[i].k, 2), ops[i].c.fault)
          IN IF hooked.ok
             THEN Await([ops EXCEPT ![i].pc = "write", ![i].entity = Some(hooked.user)])
             ELSE Outcome(Returned(ops[i].c, Thrown(users, hooked.status, "hasher")),
                          ops[i].c, Remove(ops, i))
  /\ login' = login

\* The INSERT or the UPDATE of a save
SaveWrite ==
  /\ pc = "idle"
  /\ \E i \in 1..Len(ops) :
       /\ ops[i].pc = "write"
       /\ Outcome(Returned(ops[i].c, write(users, The(ops[i].entity), ops[i].row)),
                  ops[i].c, Remove(ops, i))
  /\ login' = login

\* deleteUser is called: findOne
DeleteUser ==
  /\ pc = "idle" /\ Started < MaxCalls
  /\ \E id \in Ids :
       LET c == [NoCall EXCEPT !.fn = "deleteUser", !.id = id]
           found == deleteUser(users, id)
       IN IF found.ok
          THEN Await(Append(ops, Op(c, "remove", found.user, NoUpdate)))
          ELSE Outcome(found, c, ops)
  /\ login' = login

\* The remove of a deleteUser call
DeleteUserRemove ==
  /\ pc = "idle"
  /\ \E i \in 1..Len(ops) :
       /\ ops[i].pc = "remove"
       /\ Outcome(remove(users, The(ops[i].entity)), ops[i].c, Remove(ops, i))
  /\ login' = login

\* The call's answer on the table as it is now; `out` was computed from
\* the row the call had read
Later(out) == [out EXCEPT !.users = users]

\* login is called: findUserByEmail
AuthLogin ==
  /\ pc = "idle" /\ Started < MaxCalls
  /\ \E in \in LoginInputs :
       LET email == in[1]
           password == in[2]
           fault == in[3]
           c == [NoCall EXCEPT !.fn = "login", !.email = email, !.password = password,
                               !.fault = fault]
           found == findUserByEmail(users, email)
       IN IF fault = "store" \/ found = {}
          THEN Outcome(AuthService_login(users, email, password, fault), c, ops)
          ELSE Await(Append(ops, Op(c, "compare", found, NoUpdate)))
  /\ login' = login

\* The verifyPassword of a login resolves: the password is compared with
\* the hash of the row the call read
AuthLoginCompare ==
  /\ pc = "idle"
  /\ \E i \in 1..Len(ops) :
       /\ ops[i].pc = "compare" /\ ops[i].c.fn = "login"
       /\ Outcome(Later(AuthService_login(ops[i].seen, ops[i].c.email, ops[i].c.password,
                                          ops[i].c.fault)),
                  ops[i].c, Remove(ops, i))
  /\ login' = login

\* signup is called: findUserByEmail
Signup ==
  /\ pc = "idle" /\ Started < MaxCalls
  /\ \E in \in SignupInputs :
       LET email == in[1]
           password == in[2]
           fault == in[3]
           c == [NoCall EXCEPT !.fn = "signup", !.email = email,
                               !.password = password, !.fault = fault]
           found == signup(users, email, password, fault)
       IN IF found.ok
          THEN Await(Append(ops, Op(c, "save", found.user, NoUpdate)))
          ELSE Outcome(found, c, ops)
  /\ login' = login

\* DatabaseService.query(text, params) is called
Query ==
  /\ pc = "idle" /\ Started < MaxCalls
  /\ \E q \in Statements :
       Outcome(query(users, q[1], q[2]),
               [NoCall EXCEPT !.fn = "query", !.id = q[2][1],
                              !.email = IF Len(q[2]) > 1 THEN q[2][2] ELSE ""], ops)
  /\ login' = login

\* changePassword is called: getUserById
ChangePassword ==
  /\ pc = "idle" /\ Started < MaxCalls
  /\ \E in \in ChangePasswordInputs :
       LET id == in[1]
           current == in[2]
           new == in[3]
           fault == in[4]
           c == [NoCall EXCEPT !.fn = "changePassword", !.id = id, !.password = current,
                               !.newPassword = new, !.fault = fault]
           found == getUserById(users, id)
       IN IF fault = "store" \/ found = {}
          THEN Outcome(changePassword(users, id, current, new, Salt1, fault).out, c, ops)
          ELSE Await(Append(ops, Op(c, "compare", found, NoUpdate)))
  /\ login' = login

\* The verifyPassword of a changePassword resolves: the current password is
\* compared with the hash of the row the call read, and hashPassword is
\* called
ChangePasswordCompare ==
  /\ pc = "idle"
  /\ \E i \in 1..Len(ops) :
       /\ ops[i].pc = "compare" /\ ops[i].c.fn = "changePassword"
       /\ LET r == changePassword(ops[i].seen, ops[i].c.id, ops[i].c.password,
                                  ops[i].c.newPassword, SaltOf(ops[i].k, 1), ops[i].c.fault)
          IN IF r.out.ok
             THEN Await([ops EXCEPT ![i].pc = "hash"])
             ELSE Outcome(Later(r.out), ops[i].c, Remove(ops, i))
  /\ login' = login

\* The hashPassword of a changePassword resolves: updateUser is called
\* with the hash
ChangePasswordHash ==
  /\ pc = "idle"
  /\ \E i \in 1..Len(ops) :
       /\ ops[i].pc = "hash"
       /\ Await([ops EXCEPT ![i].pc = "find",
                            ![i].update =
                               changePassword(ops[i].seen, ops[i].c.id, ops[i].c.password,
                                              ops[i].c.newPassword, SaltOf(ops[i].k, 1),
                                              ops[i].c.fault).update])
  /\ login' = login

\* The updateUser call of changePassword reads the row again
ChangePasswordUpdate ==
  /\ pc = "idle"
  /\ \E i \in 1..Len(ops) :
       /\ ops[i].pc = "find"
       /\ LET found == updateUser(users, ops[i].c.id, ops[i].update, "none")
          IN IF found.ok
             THEN Await([ops EXCEPT ![i].pc = "save", ![i].entity = found.user])
             ELSE Outcome(Rethrow(found, HTTP_BAD_REQUEST), ops[i].c, Remove(ops, i))
  /\ login' = login

\* What an authenticateUser call comes to
Authenticated(r, store) ==
  [ok |-> r.ok, status |-> r.status, cause |-> "none", users |-> store, user |-> Absent]

\* UserService.authenticateUser(email, password) is called: findOne
AuthenticateUser ==
  /\ pc = "idle" /\ Started < MaxCalls
  /\ \E email \in Emails, password \in LoginPasswords :
       LET c == [NoCall EXCEPT !.fn = "authenticateUser", !.email = email,
                               !.password = password]
           found == findUserByEmail(users, email)
           r == authenticateUser(users, email, password, now)
       IN IF found = {}
          THEN Outcome(Authenticated(r, users), c, ops) /\ login' = r
          ELSE Await(Append(ops, Op(c, "compare", found, NoUpdate))) /\ login' = login

\* The validatePassword of an authenticateUser resolves: the password is
\* compared with the hash of the row the call read and the token is signed
AuthenticateUserCompare ==
  /\ pc = "idle"
  /\ \E i \in 1..Len(ops) :
       /\ ops[i].pc = "compare" /\ ops[i].c.fn = "authenticateUser"
       /\ LET r == authenticateUser(ops[i].seen, ops[i].c.email, ops[i].c.password, now)
          IN /\ Outcome(Authenticated(r, users), ops[i].c, Remove(ops, i))
             /\ login' = r

InitStore ==
  /\ now = 0
  /\ users \in StoreTables
  /\ client = Absent
  /\ login = NoLogin
  /\ probe = NoProbe
  /\ call = NoCall
  /\ InitSys
  /\ InitRun

NextStore ==
  \/ CreateUser
  \/ UpdateUser
  \/ Save
  \/ SaveHook
  \/ SaveWrite
  \/ DeleteUser
  \/ DeleteUserRemove
  \/ AuthLogin
  \/ AuthLoginCompare
  \/ Signup
  \/ Query
  \/ ChangePassword
  \/ ChangePasswordCompare
  \/ ChangePasswordHash
  \/ ChangePasswordUpdate
  \/ AuthenticateUser
  \/ AuthenticateUserCompare

SpecStore == InitStore /\ [][NextStore]_vars


\* ------------------------------------------------------------------------
\* Claims on the credential store
\* ------------------------------------------------------------------------
ByEmail(email) == {u \in users : u.email = email}
ById(id) == {u \in users : u.id = id}
Called(fn) == call.fn = fn
\* This step is a call of the service method fn
Calls(fn) == call'.n = call.n + 1 /\ call'.fn = fn

\* In the table `store` the password of u is the hash of the plaintext P, P
\* alone validates, and login with P succeeds
HashedOnce(store, u, P) ==
  /\ u.password.text = P.text /\ Len(u.password.layers) = 1
  /\ validatePassword(u, P)
  /\ \A Q \in Passwords \ {P} : ~validatePassword(u, Q)
  /\ AuthService_login(store, u.email, P, "none").ok

\* C15: after a successful createUser(email, P) or a successful
\* changePassword(userId, current, P) the stored password is the hash of P
\* applied exactly once: validatePassword(P) and login(email, P) succeed,
\* validatePassword(Q) fails for every other Q.
C15_HashedExactlyOnce ==
  [][/\ (Calls("createUser") /\ call'.ok)
          => \A u \in {v \in users' : v.email = call'.email} :
               HashedOnce(users', u, call'.password)
     /\ (Calls("changePassword") /\ call'.ok)
          => \A u \in {v \in users' : v.id = call'.id} :
               HashedOnce(users', u, call'.newPassword)]_vars

\* C16: an update that does not touch the password field leaves the stored
\* hash unchanged; what validated before the update validates after it.
C16_UntouchedPasswordKept ==
  [][(Calls("updateUser") /\ call'.ok /\ ~IsPresent(call'.data.password))
       => \A u \in ById(call'.id) :
            \E v \in users' :
              /\ v.id = u.id
              /\ v.password = u.password
              /\ \A P \in Passwords : validatePassword(u, P) => validatePassword(v, P)]_vars

\* C17: no stored password field ever equals a plaintext that was supplied
\* to createUser, updateUser or changePassword (Passwords holds every
\* plaintext a call supplies).
C17_NeverPlaintext == \A u \in users : u.password \notin Passwords

\* A row of `rows` has the email and the password verifies against its hash
CredentialsMatch(rows, email, password) ==
  \E u \in rows :
    /\ u.email = email
    /\ u.password.text = password.text
    /\ u.password.layers # <<>>
    /\ SubSeq(u.password.layers, 1, Len(u.password.layers) - 1) = password.layers

\* This step ends the call in flight ops[i]
Ends(i) == ops' = Remove(ops, i) /\ call'.n = call.n + 1 /\ call'.fn = ops[i].c.fn
\* This step is a call of fn that ends before it awaits anything
EndsAtOnce(fn) == Calls(fn) /\ Len(ops') = Len(ops)
\* This step is a call of fn that goes on with the row it read
Reads(fn) == Len(ops') = Len(ops) + 1 /\ ops'[Len(ops')].c.fn = fn

\* C18: login returns a user, and authenticateUser issues a token, only if a
\* stored user has that email and the password verifies against that user's
\* stored hash, as the call read it from the table; otherwise the call
\* throws and yields no user and no token.
C18_OnlyWithValidCredentials ==
  [][/\ \A fn \in {"login", "authenticateUser"} :
          /\ Reads(fn) => ops'[Len(ops')].seen = ByEmail(ops'[Len(ops')].c.email)
          /\ EndsAtOnce(fn) => /\ ~call'.ok /\ call'.user = Absent /\ call'.status # 0
                               /\ (ByEmail(call'.email) = {} \/ call'.fault = "store")
          /\ EndsAtOnce(fn) /\ fn = "authenticateUser"
               => (~login'.ok /\ login'.token = Absent)
     /\ \A i \in 1..Len(ops) :
          /\ (ops[i].c.fn = "login" /\ Ends(i))
               => /\ call'.ok => /\ CredentialsMatch(ops[i].seen, call'.email, call'.password)
                                 /\ IsPresent(call'.user)
                                 /\ call'.user = ops[i].seen
                  /\ ~CredentialsMatch(ops[i].seen, call'.email, call'.password) => ~call'.ok
                  /\ ~call'.ok => (call'.user = Absent /\ call'.status # 0)
          /\ (ops[i].c.fn = "authenticateUser" /\ Ends(i))
               => /\ (login'.ok \/ IsPresent(login'.token))
                       => CredentialsMatch(ops[i].seen, call'.email, call'.password)
                  /\ ~CredentialsMatch(ops[i].seen, call'.email, call'.password)
                       => (~login'.ok /\ login'.token = Absent /\ login'.status # 0)]_vars

\* login with the password of another user's text was refused although the
\* email is on file
C18_Witness ==
  /\ Called("login") /\ ByEmail(call.email) # {}
  /\ ~CredentialsMatch(users, call.email, call.password)
  /\ ~call.ok /\ call.user = Absent /\ call.cause = "badPassword"

\* C19: changePassword changes the stored password only after the current
\* password verified against the stored hash, as the call read it from the
\* table; when the user does not exist or the current password is
\* incorrect it throws and the stored record is left unchanged.
C19_ChangeOnlyAfterVerification ==
  [][/\ Reads("changePassword")
          => ops'[Len(ops')].seen = ById(ops'[Len(ops')].c.id)
     /\ EndsAtOnce("changePassword")
          => /\ ~call'.ok /\ call'.status # 0 /\ users' = users
             /\ (ById(call'.id) = {} \/ call'.fault = "store")
     /\ \A i \in 1..Len(ops) :
          ops[i].c.fn = "changePassword"
            => /\ (ops[i].pc = "compare" /\ Len(ops') = Len(ops) /\ ops'[i].pc = "hash")
                    => validatePassword(The(ops[i].seen), ops[i].c.password)
               /\ (ops[i].pc = "compare" /\ ops[i].c.fault = "none"
                     /\ ~validatePassword(The(ops[i].seen), ops[i].c.password))
                    => (Ends(i) => (~call'.ok /\ call'.status # 0 /\ users' = users))
               /\ (Ends(i) /\ users' # users)
                    => (ops[i].pc = "write"
                          /\ validatePassword(The(ops[i].seen), ops[i].c.password))
               /\ (Ends(i) /\ call'.ok)
                    => validatePassword(The(ops[i].seen), ops[i].c.password)]_vars

\* changePassword with a wrong current password for a user on file threw
\* and left the record alone
C19_Witness ==
  /\ Called("changePassword") /\ ById(call.id) # {}
  /\ call.fault = "none" /\ call.cause = "badPassword"
  /\ ~call.ok
  /\ \A u \in ById(call.id) : ~validatePassword(u, call.password)

\* C20: in login, signup and changePassword a failure of the password
\* hasher or of the credential store reaches the caller as an internal
\* error (status 500).
C20_CollaboratorFailureIs500 ==
  ((Called("login") \/ Called("signup") \/ Called("changePassword"))
      /\ call.cause \in {"store", "hasher"})
    => (~call.ok /\ call.status = 500)


\* ========================================================================
\* Exceptions while a request is processed.  One exception is raised in two
\* executions that are alike except for the exception's message; each
\* execution answers on its own copy of the response object.
\* ========================================================================
coreVars == <<now, users, client, login, probe, call, ops, pc, req, route, res, runVars,
              authNext>>

\* Exceptions that are no ValidationError and no AuthenticationError
UnexpectedNames == {"Error", "TypeError", "QueryFailedError"}
Details ==
  {"Cannot set properties of undefined (setting 'user')",
   "Cannot set property 'user' of undefined",
   "connect ECONNREFUSED 10.0.0.5:5432",
   "relation \"users\" does not exist"}

\* The response object when the exception is raised: untouched, or already
\* sent by an earlier middleware
ResponsesSoFar == {NewRes, Send(NewRes, HTTP_FORBIDDEN, [message |-> "stub"])}

Raise(at, name, m1, m2, r0, r1, r2) ==
  /\ fail' = [at |-> at, e1 |-> Err(name, m1), e2 |-> Err(name, m2),
              r0 |-> r0, r1 |-> r1, r2 |-> r2]
  /\ UNCHANGED <<coreVars, logrun, reqs, signups, tx, proc, redis>>

\* The exception is raised inside the try block of `authenticated`
RaiseInAuthenticated ==
  /\ pc = "idle"
  /\ \E name \in UnexpectedNames, m1 \in Details, r0 \in ResponsesSoFar :
      \E m2 \in Details \ {m1} :
    Raise("authenticated", name, m1, m2, r0,
          authenticatedCatch(r0, Err(name, m1)), authenticatedCatch(r0, Err(name, m2)))

\* The exception is thrown after `authenticated`, or handed to next(err):
\* the router passes it to errorHandler
RaiseToErrorHandler ==
  /\ pc = "idle"
  /\ \E name \in UnexpectedNames, m1 \in Details, r0 \in ResponsesSoFar :
      \E m2 \in Details \ {m1} :
    Raise("errorHandler", name, m1, m2, r0,
          errorHandler(r0, Err(name, m1)), errorHandler(r0, Err(name, m2)))

InitError ==
  /\ now = 0
  /\ users \in InitialStores
  /\ client = Absent
  /\ login = NoLogin
  /\ probe = NoProbe
  /\ call = NoCall
  /\ InitSys
  /\ InitRun

NextError ==
  \/ RaiseInAuthenticated
  \/ RaiseToErrorHandler

SpecError == InitError /\ [][NextError]_vars

\* C21: an unexpected exception raised while a request is processed is
\* answered with an internal-error response that carries a generic message:
\* two executions that differ only in the exception's message give the same
\* response status and body.
C21_SameAnswerWhateverTheMessage ==
  fail.at # "none"
    => /\ fail.r1.wire = fail.r2.wire
       /\ fail.r1.statusCode = fail.r2.statusCode
       /\ ~fail.r0.headersSent
            => (IsPresent(fail.r1.wire)
                  /\ The(fail.r1.wire).status = HTTP_INTERNAL_SERVER_ERROR)


\* ========================================================================
\* The logging sink.  One operation is run twice from the same state: with
\* the append to the log file working and with it throwing.
\* ========================================================================
\* What `authenticated` leaves on a fresh response, and whether it called next
authenticatedAnswer(header, session, t) ==
  LET jwtPayload == hasValidSession(header, t)
  IN IF ~IsPresent(jwtPayload)
     THEN [next |-> FALSE, principal |-> Absent,
           res |-> Send(NewRes, HTTP_UNAUTHENTICATED, AuthRequiredBody)]
     ELSE IF ~IsPresent(session)
     THEN [next |-> FALSE, principal |-> Absent,
           res |-> authenticatedCatch(NewRes,
                     TypeErr("Cannot set properties of undefined (setting 'user')"))]
     ELSE [next |-> TRUE, principal |-> jwtPayload, res |-> NewRes]

\* requestLogger, mounted before every route: logger.info, then next().  An
\* exception thrown by it is caught by the router and given to errorHandler.
requestLogger(isProd, sinkFails, header, session, t) ==
  IF info(isProd, sinkFails)
  THEN [reached |-> "errorHandler", next |-> FALSE, principal |-> Absent,
        res |-> errorHandler(NewRes, SinkErr)]
  ELSE LET a == authenticatedAnswer(header, session, t)
       IN [reached |-> "authenticated", next |-> a.next, principal |-> a.principal,
           res |-> a.res]

\* User.hashPassword(): logger.info, then the hashing; run by createUser's save
createUserLogged(store, email, password, id, salt, isProd, sinkFails) ==
  IF info(isProd, sinkFails)
  THEN Thrown(store, 0, "logger")
  ELSE createUser(store, email, password, id, salt, "none")

\* User.validatePassword(password): logger.info, then the comparison
validatePasswordLogged(user, password, isProd, sinkFails) ==
  IF info(isProd, sinkFails)
  THEN [threw |-> TRUE, valid |-> FALSE]
  ELSE [threw |-> FALSE, valid |-> validatePassword(user, password)]

LogHeaders ==
  {Absent, Some(<<Word("Basic")>>)}
    \cup {Some(<<BearerW, Sp, Jwt(generateToken(p, 0))>>) : p \in TokenPayloads}
    \cup {Some(<<BearerW, Sp, Jwt(Forged(generateToken(p, 0)))>>) : p \in TokenPayloads}

LogRun(op, isProd, input, a, b) ==
  /\ logrun' = [op |-> op, isProd |-> isProd, input |-> input, working |-> a,
                failing |-> b]
  /\ UNCHANGED <<coreVars, fail, reqs, signups, tx, proc, redis>>

\* A request passes requestLogger and `authenticated`
LoggedRequest ==
  /\ pc = "idle"
  /\ \E isProd \in BOOLEAN, header \in LogHeaders, session \in PipelineSessions,
        t \in {0, TOKEN_EXPIRATION} :
       LogRun("request", isProd, <<header, session, t>>,
              requestLogger(isProd, FALSE, header, session, t),
              requestLogger(isProd, TRUE, header, session, t))

\* A user is created: the BeforeInsert hook hashes the password
LoggedCreateUser ==
  /\ pc = "idle"
  /\ \E isProd \in BOOLEAN, email \in Emails, password \in Passwords, id \in FreeIds :
       LogRun("createUser", isProd, <<email, password, id>>,
              createUserLogged(users, email, password, id, 1, isProd, FALSE),
              createUserLogged(users, email, password, id, 1, isProd, TRUE))

\* A stored user's password is validated
LoggedValidatePassword ==
  /\ pc = "idle"
  /\ \E isProd \in BOOLEAN, user \in users, password \in Passwords :
       LogRun("validatePassword", isProd, <<user, password>>,
              validatePasswordLogged(user, password, isProd, FALSE),
              validatePasswordLogged(user, password, isProd, TRUE))

NextLog ==
  \/ LoggedRequest
  \/ LoggedCreateUser
  \/ LoggedValidatePassword

SpecLog == InitError /\ [][NextLog]_vars

\* C22: a failure of the logging sink never aborts the authentication and
\* authorization flow: the request reaches the same authentication outcome,
\* and the password is hashed and validated with the same outcome, as when
\* logging succeeds.
C22_SinkFailureChangesNothing ==
  logrun.op # "none" => logrun.failing = logrun.working


\* ========================================================================
\* Requests processed concurrently.  Express gives every request its own
\* req object; a middleware runs to its end once started, and the
\* middlewares of different requests interleave.
\* ========================================================================
MaxRequests == 2

RequestHeaders == LogHeaders

\* A request on the route  authenticated, isAdmin, handler
NewRequest(header, session) ==
  [authorization |-> header, session |-> session, pc |-> "auth", status |-> 0,
   guardSaw |-> Absent, handlerSaw |-> Absent]

\* Faulty variant: the principal is kept in one object that all requests share
attach_shared(rs, i, jwtPayload) ==
  [k \in 1..Len(rs) |->
     IF IsPresent(rs[k].session)
     THEN [rs[k] EXCEPT !.session = Some([user |-> jwtPayload])]
     ELSE rs[k]]

\* req.session.user = jwtPayload, on the req object of request i
attach(rs, i, jwtPayload) ==
  [rs EXCEPT ![i].session = Some([user |-> jwtPayload])]

Arrive ==
  /\ pc = "idle"
  /\ Len(reqs) < MaxRequests
  /\ \E header \in RequestHeaders, session \in PipelineSessions :
       reqs' = Append(reqs, NewRequest(header, session))
  /\ UNCHANGED <<coreVars, fail, logrun, signups, tx, proc, redis>>

\* `authenticated` runs for request i
AuthenticateRequest ==
  /\ pc = "idle"
  /\ \E i \in 1..Len(reqs) :
       /\ reqs[i].pc = "auth"
       /\ LET a == authenticatedAnswer(reqs[i].authorization, reqs[i].session, now)
          IN reqs' = IF a.next
                     THEN [attach(reqs, i, a.principal) EXCEPT ![i].pc = "guard"]
                     ELSE [reqs EXCEPT ![i].pc = "done",
                                       ![i].status = The(a.res.wire).status]
  /\ UNCHANGED <<coreVars, fail, logrun, signups, tx, proc, redis>>

\* The role guard runs for request i and reads req.session.user
GuardRequest ==
  /\ pc = "idle"
  /\ \E i \in 1..Len(reqs) :
       /\ reqs[i].pc = "guard"
       /\ LET outcome == hasRole(isAdmin.roles, reqs[i])
          IN reqs' = [reqs EXCEPT
                        ![i].guardSaw = SessionUser(reqs[i]),
                        ![i].pc = IF outcome = "next" THEN "handler" ELSE "done",
                        ![i].status = IF outcome = "next" THEN 0
                                      ELSE IF outcome = "throw"
                                      THEN HTTP_INTERNAL_SERVER_ERROR
                                      ELSE GuardStatus(outcome)]
  /\ UNCHANGED <<coreVars, fail, logrun, signups, tx, proc, redis>>

\* The handler runs for request i and reads req.session.user
HandleRequest ==
  /\ pc = "idle"
  /\ \E i \in 1..Len(reqs) :
       /\ reqs[i].pc = "handler"
       /\ reqs' = [reqs EXCEPT ![i].handlerSaw = SessionUser(reqs[i]),
                               ![i].pc = "done", ![i].status = HTTP_OK]
  /\ UNCHANGED <<coreVars, fail, logrun, signups, tx, proc, redis>>

NextConcurrent ==
  \/ Arrive
  \/ AuthenticateRequest
  \/ GuardRequest
  \/ HandleRequest

SpecConcurrent == InitError /\ [][NextConcurrent]_vars

\* The principal the token of request i stands for, if the token is valid
OwnPrincipal(i) == hasValidSession(reqs[i].authorization, now)

\* C23: the principal is request-scoped.  Under every interleaving of
\* concurrently processed requests the principal a request's guard and
\* handler see is the one reconstructed from that request's own token; a
\* principal attached for one request is not visible to another; a request
\* without a valid token never has a principal attached.
C23_PrincipalIsRequestScoped ==
  \A i \in 1..Len(reqs) :
    /\ IsPresent(SessionUser(reqs[i]))
         => (IsPresent(OwnPrincipal(i)) /\ SessionUser(reqs[i]) = OwnPrincipal(i))
    /\ IsPresent(reqs[i].guardSaw) => reqs[i].guardSaw = OwnPrincipal(i)
    /\ IsPresent(reqs[i].handlerSaw) => reqs[i].handlerSaw = OwnPrincipal(i)
    /\ ~IsPresent(OwnPrincipal(i))
         => (SessionUser(reqs[i]) = Absent /\ reqs[i].pc \in {"auth", "done"}
               /\ reqs[i].status \in {0, HTTP_UNAUTHENTICATED})

\* Two requests with different tokens are under way at once, each with its
\* own principal attached; the guard of the second has run in between
C23_Witness ==
  /\ Len(reqs) = 2
  /\ reqs[1].pc = "guard" /\ reqs[2].pc = "handler"
  /\ IsPresent(SessionUser(reqs[1])) /\ IsPresent(SessionUser(reqs[2]))
  /\ SessionUser(reqs[1]) # SessionUser(reqs[2])
  /\ reqs[2].guardSaw = OwnPrincipal(2)


\* ------------------------------------------------------------------------
\* The lifetime of an access token
\* ------------------------------------------------------------------------
\* README, Token Management: "Access token validity: 1 hour"
ACCESS_TOKEN_VALIDITY == 1

\* C24: an access token is valid for 1 hour: verifyToken accepts a token
\* issued by generateToken until 1 hour after issuance and rejects it from
\* then on.
C24_ValidForOneHour ==
  (Verified /\ IsPresent(client) /\ probe.piece = <<Jwt(Held)>>)
    => (IsPresent(probe.result) <=> probe.at < Held.iat + ACCESS_TOKEN_VALIDITY)


\* ========================================================================
\* Concurrent signups.  AuthService.signup awaits the lookup and then the
\* insert; between the two, other calls run.
\* ========================================================================
MaxSignups == 3

\* A call of signup({email, password}) that has not yet looked the email up
NewSignup(email, password, existed) ==
  [email |-> email, password |-> password, pc |-> "find", existed |-> existed,
   ok |-> FALSE, status |-> 0, cause |-> "none", created |-> Absent]

\* The uuid the insert of call i draws, and the salt its hashing draws
SignupId(i) == IF FreeIds = {} THEN "u0" ELSE CHOOSE id \in FreeIds : TRUE
SignupSalt(i) == 10 + i

SignupCalled ==
  /\ pc = "idle"
  /\ Len(signups) < MaxSignups
  /\ \E email \in Emails, password \in Passwords :
       signups' = Append(signups,
                         NewSignup(email, password, findUserByEmail(users, email) # {}))
  /\ UNCHANGED <<coreVars, fail, logrun, reqs, tx, proc, redis>>

\* Faulty variant: the call goes on to createUser whether or not a user has
\* the email
SignupFind_noCheck ==
  /\ pc = "idle"
  /\ \E i \in 1..Len(signups) :
       /\ signups[i].pc = "find"
       /\ signups' = [signups EXCEPT ![i].pc = "insert"]
  /\ UNCHANGED <<coreVars, fail, logrun, reqs, tx, proc, redis>>

\* await this.userService.findUserByEmail(userData.email), and the throw
\* of 'User already exists' when a user has the email (caught and rethrown
\* with status 400)
SignupFind ==
  /\ pc = "idle"
  /\ \E i \in 1..Len(signups) :
       /\ signups[i].pc = "find"
       /\ signups' = IF findUserByEmail(users, signups[i].email) # {}
                     THEN [signups EXCEPT ![i].pc = "done",
                                          ![i].status = HTTP_BAD_REQUEST,
                                          ![i].cause = "exists"]
                     ELSE [signups EXCEPT ![i].pc = "insert"]
  /\ UNCHANGED <<coreVars, fail, logrun, reqs, tx, proc, redis>>

\* await this.userService.createUser(email, password), and the return or
\* the rethrow with status 400
SignupInsert ==
  /\ pc = "idle"
  /\ \E i \in 1..Len(signups) :
       /\ signups[i].pc = "insert"
       /\ LET out == Rethrow(createUser(users, signups[i].email, signups[i].password,
                                        SignupId(i), SignupSalt(i), "none"),
                             HTTP_BAD_REQUEST)
          IN /\ users' = out.users
             /\ signups' = [signups EXCEPT ![i].pc = "done", ![i].ok = out.ok,
                                           ![i].status = out.status,
                                           ![i].cause = out.cause,
                                           ![i].created = out.user]
  /\ UNCHANGED <<now, client, login, probe, call, ops, pc, req, route, res, runVars,
                 authNext, fail, logrun, reqs, tx, proc, redis>>

NextSignup ==
  \/ SignupCalled
  \/ SignupFind
  \/ SignupInsert

SpecSignup == InitError /\ [][NextSignup]_vars

CreatedBySignup == UNION {signups[i].created : i \in 1..Len(signups)}

StatusFor(name) ==
  IF name = VALIDATION_ERROR THEN HTTP_BAD_REQUEST
  ELSE IF name = AUTHENTICATION_ERROR THEN HTTP_UNAUTHENTICATED
  ELSE HTTP_INTERNAL_SERVER_ERROR

\* C26: for every error passed to errorHandler exactly one response is
\* written for the request, with status 400 for a ValidationError, 401 for
\* an AuthenticationError and 500 otherwise; no second status or body is
\* written after the first.
C26_OneResponsePerError ==
  [][(pc = "run" /\ errRuns' = errRuns + 1)
       => /\ res'.headersSent
          /\ ~res.headersSent
               => /\ res'.calls = res.calls + 1
                  /\ The(res'.wire).status = StatusFor(Top.e.name)
                  /\ res'.statusCode = StatusFor(Top.e.name)
          /\ res.headersSent => (res'.calls = res.calls /\ res'.statusCode = res.statusCode)]_vars


\* ========================================================================
\* RedisService: hashes (core/db/redis.ts)
\* ========================================================================
\* A JavaScript value, and the strings JSON.stringify makes of it: `quoted`
\* counts how often the value was serialised.  JSON.stringify(v) is a string
\* that differs from v and from which JSON.parse gives v back.
JsValue(kind, text) == [kind |-> kind, text |-> text, quoted |-> 0]
JSON_stringify(v) == [v EXCEPT !.quoted = @ + 1]
\* JSON.parse(s): the value s is the text of; a SyntaxError for a string
\* that is no JSON text
JSON_parse(s) ==
  IF s.quoted > 0 THEN [ok |-> TRUE, value |-> [s EXCEPT !.quoted = @ - 1]]
  ELSE [ok |-> FALSE, value |-> s]

\* The values stored: an object, a number, a string that is no JSON text
RedisValues ==
  {JsValue("object", "{id: 123, name: 'John'}"), JsValue("number", "5"),
   JsValue("string", "John")}

RedisCall(r) ==
  /\ redis' = r
  /\ UNCHANGED <<coreVars, fail, logrun, reqs, signups, tx, proc>>

\* What setHash hands to hSet
setHashStored(value) == JSON_stringify(value)

\* The key holds a string: the hash commands are refused with WRONGTYPE
HoldsString(key) == IsPresent(redis.str[key])

\* The record of a call: its name and arguments, whether it resolved
RedisDid(name, key, field, resolved) ==
  [redis EXCEPT !.op = name, !.key = key, !.field = field, !.ok = resolved,
                !.result = Absent,
                !.all = NoRedis.all]

\* The key is emptied: no field of it and no string is left
Emptied(r, key) ==
  [r EXCEPT !.store = [kf \in RedisKeys \X RedisFields |->
                         IF kf[1] = key THEN Absent ELSE @[kf]],
            !.written = [kf \in RedisKeys \X RedisFields |->
                           IF kf[1] = key THEN Absent ELSE @[kf]],
            !.str[key] = Absent]

\* setHash(key, field, value); hSet rejects when the server is unreachable
\* and when the key holds a string
SetHash ==
  /\ pc = "idle"
  /\ \E key \in RedisKeys, field \in RedisFields, value \in RedisValues,
        down \in BOOLEAN :
       RedisCall(IF down \/ HoldsString(key)
                 THEN RedisDid("setHash", key, field, FALSE)
                 ELSE [RedisDid("setHash", key, field, TRUE) EXCEPT
                         !.store[<<key, field>>] = Some(setHashStored(value)),
                         !.written[<<key, field>>] = Some(value)])

\* set(key, value) without expireInSeconds: the key now holds the string,
\* whatever it held before
Set ==
  /\ pc = "idle"
  /\ \E key \in RedisKeys, value \in RedisValues, down \in BOOLEAN :
       RedisCall(IF down
                 THEN RedisDid("set", key, "", FALSE)
                 ELSE [Emptied(RedisDid("set", key, "", TRUE), key) EXCEPT
                         !.str[key] = Some(JSON_stringify(value))])

\* delete(key): the key goes with everything it holds
Delete ==
  /\ pc = "idle"
  /\ \E key \in RedisKeys, down \in BOOLEAN :
       RedisCall(IF down
                 THEN RedisDid("delete", key, "", FALSE)
                 ELSE Emptied(RedisDid("delete", key, "", TRUE), key))

\* What getAllHash makes of one stored string
getAllHashValue(stored) == JSON_parse(stored)

\* What getHash returns for the reply of hGet: `value ?
\* JSON.parse(JSON.stringify(value)) : null`
getHashValue(reply) ==
  IF IsPresent(reply)
  THEN LET p == JSON_parse(JSON_stringify(The(reply)))
       IN [ok |-> p.ok, result |-> Some(p.value)]
  ELSE [ok |-> TRUE, result |-> Absent]

\* getHash(key, field)
GetHash ==
  /\ pc = "idle"
  /\ \E key \in RedisKeys, field \in RedisFields :
       LET got == getHashValue(redis.store[<<key, field>>])
       IN RedisCall(IF HoldsString(key)
                    THEN RedisDid("getHash", key, field, FALSE)
                    ELSE [RedisDid("getHash", key, field, got.ok) EXCEPT
                            !.result = got.result])

\* getAllHash(key)
GetAllHash ==
  /\ pc = "idle"
  /\ \E key \in RedisKeys :
       LET present == {f \in RedisFields : IsPresent(redis.store[<<key, f>>])}
           parsed == [f \in present |-> getAllHashValue(The(redis.store[<<key, f>>]))]
           fine == ~HoldsString(key) /\ \A f \in present : parsed[f].ok
       IN RedisCall([RedisDid("getAllHash", key, "", fine) EXCEPT
                       !.all = [f \in RedisFields |->
                                  IF fine /\ f \in present THEN Some(parsed[f].value)
                                  ELSE Absent]])

NextRedis ==
  \/ SetHash
  \/ Set
  \/ Delete
  \/ GetHash
  \/ GetAllHash

SpecRedis == InitError /\ [][NextRedis]_vars

\* C29: Redis hash round trip.  After setHash(key, field, v) succeeded,
\* getHash(key, field) returns a value equal to v and getAllHash(key) maps
\* field to a value equal to v; getHash returns null for a field that was
\* never set.
C29_HashRoundTrip ==
  /\ (redis.op = "getHash" /\ ~HoldsString(redis.key))
       => (redis.ok /\ redis.result = redis.written[<<redis.key, redis.field>>])
  /\ (redis.op = "getAllHash" /\ ~HoldsString(redis.key))
       => (redis.ok /\ \A f \in RedisFields : redis.all[f] = redis.written[<<redis.key, f>>])


\* ========================================================================
\* DatabaseService.transaction(callback) (core/db/index.ts)
\* ========================================================================
\* The awaited steps of transaction(), each of which may reject
TxSteps == {"connect", "startTransaction", "callback", "commitTransaction",
            "rollbackTransaction", "release"}

\* createQueryRunner(): a transaction() call starts; `fails` is the set of
\* steps that will reject during this call
NewTx(fails) ==
  [pc |-> "connect", fails |-> fails, connected |-> FALSE, active |-> FALSE,
   callbackOk |-> FALSE, commitCalled |-> FALSE, committed |-> FALSE,
   rollbackCalled |-> FALSE, rolledBack |-> FALSE, releaseCalled |-> FALSE,
   pending |-> "none", outcome |-> "none", error |-> "none"]

TxStep(t) ==
  /\ tx' = t
  /\ UNCHANGED <<coreVars, fail, logrun, reqs, signups, proc, redis>>

\* What an awaited step that rejects outside the try block does: the
\* rejection leaves transaction()
TxThrow(step) == [tx EXCEPT !.pc = "done", !.outcome = "threw", !.error = step]

TxCall ==
  /\ pc = "idle"
  /\ tx.pc \in {"none", "done"}
  /\ \E fails \in SUBSET TxSteps : TxStep(NewTx(fails))

\* await queryRunner.connect()
TxConnect ==
  /\ pc = "idle"
  /\ tx.pc = "connect"
  /\ TxStep(IF "connect" \in tx.fails THEN TxThrow("connect")
            ELSE [tx EXCEPT !.pc = "startTransaction", !.connected = TRUE])

\* await queryRunner.startTransaction()
TxStart ==
  /\ pc = "idle"
  /\ tx.pc = "startTransaction"
  /\ TxStep(IF "startTransaction" \in tx.fails THEN TxThrow("startTransaction")
            ELSE [tx EXCEPT !.pc = "callback", !.active = TRUE])

\* try { const result = await callback(queryRunner)
TxCallback ==
  /\ pc = "idle"
  /\ tx.pc = "callback"
  /\ TxStep(IF "callback" \in tx.fails
            THEN [tx EXCEPT !.pc = "rollbackTransaction", !.pending = "callback"]
            ELSE [tx EXCEPT !.pc = "commitTransaction", !.callbackOk = TRUE])

\* await queryRunner.commitTransaction(); return result
TxCommit ==
  /\ pc = "idle"
  /\ tx.pc = "commitTransaction"
  /\ TxStep(IF "commitTransaction" \in tx.fails
            THEN [tx EXCEPT !.pc = "rollbackTransaction", !.commitCalled = TRUE,
                            !.pending = "commitTransaction"]
            ELSE [tx EXCEPT !.pc = "release", !.commitCalled = TRUE,
                            !.committed = TRUE, !.active = FALSE])

\* catch (error) { await queryRunner.rollbackTransaction(); throw error }
TxRollback ==
  /\ pc = "idle"
  /\ tx.pc = "rollbackTransaction"
  /\ TxStep(IF "rollbackTransaction" \in tx.fails
            THEN [tx EXCEPT !.pc = "release", !.rollbackCalled = TRUE,
                            !.pending = "rollbackTransaction"]
            ELSE [tx EXCEPT !.pc = "release", !.rollbackCalled = TRUE,
                            !.rolledBack = TRUE, !.active = FALSE])

\* finally { await queryRunner.release() }, then the return or the throw
\* that was pending
TxRelease ==
  /\ pc = "idle"
  /\ tx.pc = "release"
  /\ TxStep(IF "release" \in tx.fails
            THEN [tx EXCEPT !.pc = "done", !.releaseCalled = TRUE,
                            !.outcome = "threw", !.error = "release"]
            ELSE [tx EXCEPT !.pc = "done", !.releaseCalled = TRUE,
                            !.connected = FALSE,
                            !.outcome = IF tx.pending = "none" THEN "returned"
                                        ELSE "threw",
                            !.error = tx.pending])

NextTx ==
  \/ TxCall
  \/ TxConnect
  \/ TxStart
  \/ TxCallback
  \/ TxCommit
  \/ TxRollback
  \/ TxRelease

SpecTx == InitError /\ [][NextTx]_vars

\* C27: transaction(callback) commits if and only if the callback completes
\* without error, rolls back and rethrows when the callback or the commit
\* throws, never both commits and rolls back, and releases every query
\* runner it creates whichever step fails.
C27_TransactionContract ==
  tx.pc = "done"
    => /\ tx.commitCalled <=> tx.callbackOk
       /\ (tx.pending \in {"callback", "commitTransaction", "rollbackTransaction"})
            => (tx.rollbackCalled /\ tx.outcome = "threw")
       /\ ~(tx.committed /\ tx.rolledBack)
       /\ tx.outcome = "returned" => tx.committed
       /\ tx.releaseCalled


\* ========================================================================
\* The process: startup and graceful shutdown (index.ts)
\* ========================================================================
MaxSignals == 2       \* SIGTERM and SIGINT deliveries in one run
MaxConns == 2         \* client connections made in one run
MaxConnects == 2      \* calls of DatabaseService.connect() in one run

\* The process has started: the signal handlers are registered and
\* AppDataSource.initialize() has been called.  `init` is the promise of
\* that call, `stage` the await the call is at: the driver's connect, the
\* rest of initialize(), or the destroy() of its catch block
Booted ==
  [pc |-> "running", init |-> "pending", stage |-> "driver", isInitialized |-> FALSE,
   db |-> "none",
   serverInstance |-> FALSE, server |-> "none", conns |-> 0, opened |-> 0,
   signals |-> 0,
   shutdowns |-> <<>>, code |-> 0, threw |-> FALSE,
   connects |-> <<>>, disconnect |-> "none"]

ProcStep(p) ==
  /\ proc' = p
  /\ UNCHANGED <<coreVars, fail, logrun, reqs, signups, tx, redis>>

Running == pc = "idle" /\ proc.pc = "running"

\* process.exit(code)
Exit(p, code) == [p EXCEPT !.pc = "exited", !.code = code]

Boot ==
  /\ pc = "idle"
  /\ proc.pc = "none"
  /\ ProcStep(Booted)

\* initialize() has connected the driver: AppDataSource.isInitialized is
\* true from here on, while initialize() goes on (metadata, migrations)
DriverConnected ==
  /\ Running
  /\ proc.init = "pending" /\ proc.stage = "driver"
  /\ ProcStep([proc EXCEPT !.isInitialized = TRUE, !.db = "open", !.stage = "rest"])

\* Faulty variant: the server is started without waiting for initialize()
InitializeResolved_noWait ==
  /\ Running
  /\ proc.init = "pending" /\ ~proc.serverInstance
  /\ ProcStep([proc EXCEPT !.serverInstance = TRUE, !.server = "listening"])

\* initialize() resolves and the .then callback runs:
\* serverInstance = server.listen(PORT, ...)
InitializeResolved ==
  /\ Running
  /\ proc.init = "pending" /\ proc.stage = "rest"
  /\ ProcStep([proc EXCEPT !.init = "ok", !.stage = "done", !.serverInstance = TRUE,
                           !.server = "listening"])

\* A step of initialize() after the driver's connect fails: its catch block
\* calls destroy(), which awaits the driver's disconnect, or throws when the
\* data source is not initialized any more, and initialize() rejects
InitializeDestroys ==
  /\ Running
  /\ proc.init = "pending" /\ proc.stage = "rest"
  /\ ProcStep(IF proc.isInitialized
              THEN [proc EXCEPT !.stage = "destroy", !.db = "destroying"]
              ELSE Exit([proc EXCEPT !.init = "failed", !.stage = "done"], 1))

\* initialize() rejects and the .catch callback runs: process.exit(1).  The
\* driver did not connect, or the destroy() of the catch block has resolved
\* and isInitialized is false, or it has rejected
InitializeRejected ==
  /\ Running
  /\ proc.init = "pending"
  /\ \/ /\ proc.stage = "driver"
        /\ ProcStep(Exit([proc EXCEPT !.init = "failed", !.stage = "done"], 1))
     \/ /\ proc.stage = "destroy"
        /\ ProcStep(Exit([proc EXCEPT !.init = "failed", !.stage = "done",
                                      !.isInitialized = FALSE, !.db = "destroyed"], 1))
     \/ /\ proc.stage = "destroy"
        /\ ProcStep(Exit([proc EXCEPT !.init = "failed", !.stage = "done"], 1))

\* A client opens or ends a connection
ClientConnects ==
  /\ Running
  /\ proc.server = "listening" /\ proc.opened < MaxConns
  /\ ProcStep([proc EXCEPT !.conns = @ + 1, !.opened = @ + 1])

ClientDisconnects ==
  /\ Running
  /\ proc.conns > 0
  /\ ProcStep([proc EXCEPT !.conns = @ - 1])

\* SIGTERM or SIGINT: shutdown() runs up to its first await
Signal ==
  /\ Running
  /\ proc.signals < MaxSignals
  /\ ProcStep(
       IF proc.serverInstance
       THEN \* serverInstance.close(resolve)
            [proc EXCEPT !.signals = @ + 1,
                         !.shutdowns = Append(@, "awaitClose"),
                         !.server = IF @ = "listening" THEN "closing" ELSE @]
       ELSE IF proc.isInitialized
       THEN \* AppDataSource.destroy()
            [proc EXCEPT !.signals = @ + 1,
                         !.shutdowns = Append(@, "awaitDestroy"),
                         !.db = "destroying"]
       ELSE Exit([proc EXCEPT !.signals = @ + 1, !.shutdowns = Append(@, "done")], 0))

\* The last connection has ended: the server emits 'close'
ServerClosed ==
  /\ Running
  /\ proc.server = "closing" /\ proc.conns = 0
  /\ ProcStep([proc EXCEPT !.server = "closed"])

\* A shutdown() waiting for the close goes on after it
ResumeAfterClose ==
  /\ Running
  /\ proc.server = "closed"
  /\ \E i \in 1..Len(proc.shutdowns) :
       /\ proc.shutdowns[i] = "awaitClose"
       /\ ProcStep(IF proc.isInitialized
                   THEN [proc EXCEPT !.shutdowns[i] = "awaitDestroy",
                                     !.db = "destroying"]
                   ELSE Exit([proc EXCEPT !.shutdowns[i] = "done"], 0))

\* AppDataSource.destroy() resolves: process.exit(0)
DestroyResolved ==
  /\ Running
  /\ \E i \in 1..Len(proc.shutdowns) :
       /\ proc.shutdowns[i] = "awaitDestroy"
       /\ ProcStep(Exit([proc EXCEPT !.shutdowns[i] = "done", !.db = "destroyed",
                                     !.isInitialized = FALSE], 0))

\* AppDataSource.destroy() rejects: the catch block runs process.exit(1)
DestroyRejected ==
  /\ Running
  /\ \E i \in 1..Len(proc.shutdowns) :
       /\ proc.shutdowns[i] = "awaitDestroy"
       /\ ProcStep(Exit([proc EXCEPT !.shutdowns[i] = "done", !.threw = TRUE], 1))

\* DatabaseService.connect() is called: initialize() on the same
\* AppDataSource throws when the data source is initialized already, else
\* it awaits the driver's connect
Connect ==
  /\ Running
  /\ Len(proc.connects) < MaxConnects
  /\ ProcStep([proc EXCEPT !.connects =
                 Append(@, IF proc.isInitialized THEN "rejected" ELSE "driver")])

\* The driver of a connect() has connected: isInitialized is set, and
\* initialize() goes on (metadata, migrations)
ConnectDriver ==
  /\ Running
  /\ \E i \in 1..Len(proc.connects) :
       /\ proc.connects[i] = "driver"
       /\ ProcStep([proc EXCEPT !.connects[i] = "initializing", !.isInitialized = TRUE,
                                !.db = "open"])

\* The initialize() of a connect() resolves
ConnectResolved ==
  /\ Running
  /\ \E i \in 1..Len(proc.connects) :
       /\ proc.connects[i] = "initializing"
       /\ ProcStep([proc EXCEPT !.connects[i] = "resolved"])

\* A step of the initialize() of a connect() after the driver's connect
\* fails: its catch block calls destroy(), which awaits the driver's
\* disconnect, or throws when the data source is not initialized any more
ConnectDestroys ==
  /\ Running
  /\ \E i \in 1..Len(proc.connects) :
       /\ proc.connects[i] = "initializing"
       /\ ProcStep(IF proc.isInitialized
                   THEN [proc EXCEPT !.connects[i] = "destroying", !.db = "destroying"]
                   ELSE [proc EXCEPT !.connects[i] = "rejected"])

\* The initialize() of a connect() rejects and connect() rethrows: the
\* driver did not connect, or the destroy() of the catch block has resolved
\* and isInitialized is false, or it has rejected
ConnectRejected ==
  /\ Running
  /\ \E i \in 1..Len(proc.connects) :
       \/ /\ proc.connects[i] = "driver"
          /\ ProcStep([proc EXCEPT !.connects[i] = "rejected"])
       \/ /\ proc.connects[i] = "destroying"
          /\ ProcStep([proc EXCEPT !.connects[i] = "rejected", !.isInitialized = FALSE,
                                   !.db = "destroyed"])
       \/ /\ proc.connects[i] = "destroying"
          /\ ProcStep([proc EXCEPT !.connects[i] = "rejected"])

\* DatabaseService.disconnect(): destroy() on the same AppDataSource.  It
\* throws when the data source is not initialized, else it awaits the
\* driver's disconnect
Disconnect ==
  /\ Running
  /\ proc.disconnect # "pending"
  /\ ProcStep(IF proc.isInitialized
              THEN [proc EXCEPT !.disconnect = "pending", !.db = "destroying"]
              ELSE [proc EXCEPT !.disconnect = "rejected"])

\* The destroy() of disconnect() resolves
DisconnectResolved ==
  /\ Running
  /\ proc.disconnect = "pending"
  /\ ProcStep([proc EXCEPT !.disconnect = "resolved", !.db = "destroyed",
                           !.isInitialized = FALSE])

\* The destroy() of disconnect() rejects: disconnect() rethrows
DisconnectRejected ==
  /\ Running
  /\ proc.disconnect = "pending"
  /\ ProcStep([proc EXCEPT !.disconnect = "rejected"])

NextProc ==
  \/ Boot
  \/ DriverConnected
  \/ InitializeResolved
  \/ InitializeDestroys
  \/ InitializeRejected
  \/ ClientConnects
  \/ ClientDisconnects
  \/ Signal
  \/ ServerClosed
  \/ ResumeAfterClose
  \/ DestroyResolved
  \/ DestroyRejected
  \/ Connect
  \/ ConnectDriver
  \/ ConnectResolved
  \/ ConnectDestroys
  \/ ConnectRejected
  \/ Disconnect
  \/ DisconnectResolved
  \/ DisconnectRejected

SpecProc == InitError /\ [][NextProc]_vars

\* C28: graceful shutdown.  Once SIGTERM or SIGINT is received, under every
\* interleaving with startup and with repeated signals, the database
\* connection is never destroyed before the close of the HTTP server has
\* completed, and the process exits with code 0 when no step failed and
\* with code 1 when a step threw.
C28_CloseBeforeDestroy ==
  (proc.pc # "none" /\ proc.signals > 0)
    => /\ proc.db \in {"destroying", "destroyed"} => proc.server \in {"none", "closed"}
       /\ (proc.pc = "exited" /\ proc.init # "failed")
            => (proc.code = IF proc.threw THEN 1 ELSE 0)

\* C30: startup ordering.  The HTTP server starts listening only after the
\* database initialization has completed successfully; if the
\* initialization fails the process exits with code 1 and the server never
\* listens.
C30_ListenOnlyAfterInitialize ==
  proc.pc # "none"
    => /\ proc.server # "none" => proc.init = "ok"
       /\ proc.serverInstance => proc.init = "ok"
       /\ proc.init = "failed"
            => (proc.pc = "exited" /\ proc.code = 1 /\ proc.server = "none")

\* The server is listening, with a client connected, after initialize()
\* resolved
C30_Witness ==
  /\ proc.pc = "running"
  /\ proc.init = "ok" /\ proc.server = "listening" /\ proc.conns = 1

====
